---- MODULE Spec2Model ----
(***************************************************************************)
(* A model of the T2L translator: the LookML object model                  *)
(* (LookML_objects.py) and the Tableau object model that feeds it          *)
(* (Tableau_objects.py).                                                   *)
(*                                                                         *)
(* A Python str is a sequence of characters; a character is a TLA+ string. *)
(* Most characters are written as themselves ("a", "_", "("); the two      *)
(* non-ASCII characters the model needs are written by code point.         *)
(***************************************************************************)
EXTENDS Integers, Sequences, FiniteSets, TLC

VARIABLES
    g_text,      \* the p_text the live generator object was created with
    g_calls,     \* how many times next() was called on the live generator
    g_last,      \* what the last next() call did: a yield or an exception
    objs,        \* the LookML objects created so far; an object is its index
    exc,         \* the exception the last operation raised, or None
    nodes,       \* the Tableau objects parsed so far; an object is its index
    ret          \* the last read of a translator property and what it returned

gvars == <<g_text, g_calls, g_last>>

tvars == <<objs, exc, nodes, ret>>

vars == <<g_text, g_calls, g_last, objs, exc, nodes, ret>>

(***************************************************************************)
(* Bounds of the model and constants of the program.                       *)
(***************************************************************************)
\* labels are all strings over Alphabet of at most this length, plus Samples
MaxLabelLen == 2

\* the registry operations stop constructing objects at this many
MaxObjs == 5

\* adds that the exhaustion run still makes once a registry is exhausted
MaxFailedAdds == 2

\* metadata records and column instances of the one-table datasource
MaxCols == 3
MaxInstances == 1

\* reads of translator properties after the parse
MaxReads == 2

\* p_text[:60]
PrefixLen == 60

\* range(1, 1000)
RangeStop == 1000

None == "None"

Min(a, b) == IF a < b THEN a ELSE b

(***************************************************************************)
(* Characters.                                                             *)
(***************************************************************************)
UpperCase == <<"A", "B", "C", "D", "E", "F", "G", "H", "I", "J", "K", "L", "M",
               "N", "O", "P", "Q", "R", "S", "T", "U", "V", "W", "X", "Y", "Z">>

LowerCase == <<"a", "b", "c", "d", "e", "f", "g", "h", "i", "j", "k", "l", "m",
               "n", "o", "p", "q", "r", "s", "t", "u", "v", "w", "x", "y", "z">>

DigitChars == <<"0", "1", "2", "3", "4", "5", "6", "7", "8", "9">>

Range(s) == {s[i] : i \in DOMAIN s}

\* the character class [a-z0-9_]
WordChars == Range(LowerCase) \cup Range(DigitChars) \cup {"_"}

\* the tuple (' ', "'", '"', '(', ')', '-', ':') of lookml_name_generator
UnderscoreChars == {" ", "'", "\"", "(", ")", "-", ":"}

\* str.lower() of one character: a string.  Every character lowercases to one
\* character, except U+0130 (LATIN CAPITAL LETTER I WITH DOT ABOVE), which
\* lowercases to the two characters "i" and U+0307 (COMBINING DOT ABOVE).
Lower(c) ==
    IF \E i \in DOMAIN UpperCase : UpperCase[i] = c
    THEN <<LowerCase[CHOOSE i \in DOMAIN UpperCase : UpperCase[i] = c]>>
    ELSE IF c = "U+0130" THEN <<"i", "U+0307">>
    ELSE <<c>>

\* re.match('[a-z0-9_]', s): the pattern is matched at the start of s, and
\* nothing requires the match to reach the end of s
ReMatchWord(s) == s # <<>> /\ s[1] \in WordChars

\* the body of the loop over p_text[:60]: what one act_char appends
AppendedFor(act_char) ==
    IF ReMatchWord(Lower(act_char)) THEN Lower(act_char)
    ELSE IF act_char \in UnderscoreChars THEN <<"_">>
    ELSE <<"X">>

RECURSIVE JoinChars(_)
\* ''.join(base_text_list), the list built by the loop over the characters
JoinChars(text) ==
    IF text = <<>> THEN <<>>
    ELSE AppendedFor(Head(text)) \o JoinChars(Tail(text))

RECURSIVE ReSubUnderscores(_)
\* re.sub(r'_+', '_', s): every maximal run of "_" is replaced by one "_"
ReSubUnderscores(s) ==
    IF s = <<>> THEN <<>>
    ELSE IF Head(s) = "_" /\ Len(s) > 1 /\ s[2] = "_" THEN ReSubUnderscores(Tail(s))
    ELSE <<Head(s)>> \o ReSubUnderscores(Tail(s))

\* base_text when the generator yields it the first time
BaseText(p_text) ==
    ReSubUnderscores(JoinChars(SubSeq(p_text, 1, Min(Len(p_text), PrefixLen))))

RECURSIVE Str(_)
\* f'{i}' of a non-negative int: its decimal digits
Str(i) ==
    IF i < 10 THEN <<DigitChars[i + 1]>>
    ELSE Str(i \div 10) \o <<DigitChars[(i % 10) + 1]>>

\* base_text after "if base_text[-1] == '_': base_text = base_text[:-1]";
\* only evaluated on a non-empty base_text
StripTrailing(base_text) ==
    IF base_text[Len(base_text)] = "_"
    THEN SubSeq(base_text, 1, Len(base_text) - 1)
    ELSE base_text

\* the assignment of a value to a local variable of the code: K is what
\* follows the assignment
Bind(value, K(_)) == K(value)

Yield(value) == [kind |-> "yield", value |-> value]
Raise(e) == [kind |-> "raise", value |-> <<e>>]

\* lookml_name_generator with range(1, 1001): one candidate more
lookml_name_generator_OneMore(p_text, n) ==
    Bind(BaseText(p_text), LAMBDA base_text :
        IF n = 0 THEN Yield(base_text)
        ELSE IF base_text = <<>>
             THEN IF n = 1 THEN Raise("IndexError") ELSE Raise("StopIteration")
        ELSE IF n <= RangeStop THEN Yield(StripTrailing(base_text) \o <<"_">> \o Str(n))
        ELSE Raise("RuntimeError"))

\* What the n-th next() (n = 0, 1, ...) on a fresh lookml_name_generator(p_text)
\* does.  base_text[-1] of an empty base_text raises IndexError; the statement
\* "raise StopIteration()" in a generator body surfaces as RuntimeError
\* (PEP 479); a generator that raised is finished, and next() on a finished
\* generator raises StopIteration.
lookml_name_generator(p_text, n) ==
    Bind(BaseText(p_text), LAMBDA base_text :
        IF n = 0 THEN Yield(base_text)
        ELSE IF base_text = <<>>
             THEN IF n = 1 THEN Raise("IndexError") ELSE Raise("StopIteration")
        ELSE IF n < RangeStop THEN Yield(StripTrailing(base_text) \o <<"_">> \o Str(n))
        ELSE IF n = RangeStop THEN Raise("RuntimeError")
        ELSE Raise("StopIteration"))

(***************************************************************************)
(* The labels the model draws from.                                        *)
(***************************************************************************)
Alphabet == {"a", "B", "7", "_", " ", "(", "!", "U+0130"}

RECURSIVE StringsUpTo(_)
StringsUpTo(n) ==
    IF n = 0 THEN {<<>>}
    ELSE LET shorter == StringsUpTo(n - 1)
         IN shorter \cup {Append(s, c) : s \in shorter, c \in Alphabet}

RECURSIVE Repeat(_, _)
Repeat(s, n) == IF n = 0 THEN <<>> ELSE s \o Repeat(s, n - 1)

\* "Order Date (Custom)!"
OrderDateLabel == <<"O", "r", "d", "e", "r", " ", "D", "a", "t", "e", " ",
                    "(", "C", "u", "s", "t", "o", "m", ")", "!">>

\* labels that reach the 60-character cut: 59 + 1 + 1, 60 + 1, 58 + 2 + 1
Samples == {OrderDateLabel,
            Repeat(<<"a">>, 59) \o <<" ", "b">>,
            Repeat(<<"a">>, 60) \o <<"!">>,
            Repeat(<<"a">>, 58) \o <<"_", " ", "(">>}

Labels == StringsUpTo(MaxLabelLen) \cup Samples

(***************************************************************************)
(* The generator as an object: created, then advanced by next().           *)
(***************************************************************************)
GenInit ==
    /\ g_text \in Labels
    /\ g_calls = 0
    /\ g_last = None
    /\ objs = <<>>
    /\ exc = None
    /\ nodes = <<>>
    /\ ret = [property |-> None, node |-> 0, val |-> 0, reads |-> 0]

\* lookml_name_generator(p_text): a fresh generator object replaces the live one
GenCreate ==
    /\ \E p_text \in Labels : g_text' = p_text
    /\ g_calls' = 0
    /\ g_last' = None
    /\ UNCHANGED tvars

\* next(gen)
GenNextCall ==
    /\ g_calls <= RangeStop + 1
    /\ g_last' = lookml_name_generator(g_text, g_calls)
    /\ g_calls' = g_calls + 1
    /\ UNCHANGED <<g_text, tvars>>

GenNext == GenCreate \/ GenNextCall

SpecGen == GenInit /\ [][GenNext]_vars

(***************************************************************************)
(* Claims about the name generator, checked under SpecGen.                 *)
(***************************************************************************)
\* the character rule as the claim words it: kept lowercased when the
\* lowercased form is one character of [a-z0-9_], "_" for the seven listed
\* characters, "X" for every other character
ClaimChar(c) ==
    IF Lower(c) \in {<<w>> : w \in WordChars} THEN Lower(c)[1]
    ELSE IF c \in {" ", "'", "\"", "(", ")", "-", ":"} THEN "_"
    ELSE "X"

\* candidate #0 as the claim words it: the rule applied to each of the first
\* 60 characters, then of every run of "_" only its first "_" is kept
ClaimCandidate0(label) ==
    LET m == [i \in 1..Min(Len(label), 60) |-> ClaimChar(label[i])]
        kept == {i \in DOMAIN m : m[i] # "_" \/ i = 1 \/ m[i - 1] # "_"}
        nth(k) == CHOOSE i \in kept : Cardinality({j \in kept : j <= i}) = k
    IN [k \in 1..Cardinality(kept) |-> m[nth(k)]]

\* C2: the first candidate of every generator is the claim's candidate #0:
\* computed from the first 60 characters only, by the character rule, with
\* runs of "_" collapsed
C2_CandidateZero ==
    g_calls = 1 => g_last = Yield(ClaimCandidate0(g_text))

\* C2, on labels without U+0130: there the first candidate is the claim's
C2_CandidateZeroOfOtherLabels ==
    (g_calls = 1 /\ "U+0130" \notin Range(g_text))
        => g_last = Yield(ClaimCandidate0(g_text))

\* C2, the example: "Order Date (Custom)!" gives "order_date_custom_X"
C2_OrderDateExample ==
    (g_calls = 1 /\ g_text = OrderDateLabel)
        => g_last = Yield(<<"o", "r", "d", "e", "r", "_", "d", "a", "t", "e", "_",
                            "c", "u", "s", "t", "o", "m", "_", "X">>)

\* candidate #0 with one trailing "_" removed if it ends in "_"
ClaimStrippedBase(c0) ==
    IF c0 # <<>> /\ c0[Len(c0)] = "_" THEN SubSeq(c0, 1, Len(c0) - 1) ELSE c0

\* C3: for every label the generator yields candidate #0, then
\* <stripped-base>_<n> for n = 1..999 in increasing n, and then ends: the
\* (n+1)-th next() of a fresh generator yields candidate #n, and no next()
\* after the 1,000th yields
C3_CandidateSequence ==
    LET c0 == BaseText(g_text) IN
    /\ g_calls = 1 => g_last = Yield(c0)
    /\ \A n \in 1..999 :
          g_calls = n + 1 => g_last = Yield(ClaimStrippedBase(c0) \o <<"_">> \o Str(n))
    /\ g_calls > 1000 => g_last.kind = "raise"

(***************************************************************************)
(* The LookML objects (LookML_objects.py).  objs is the heap: every object *)
(* constructed so far, registered or not.  One record shape serves every   *)
(* class; an attribute a class does not have keeps its default.  A         *)
(* registry (an OrderedDict) is a sequence of <<key, object>> pairs in     *)
(* insertion order.  A reference to an object is its index in objs, and 0  *)
(* is the None reference.                                                  *)
(***************************************************************************)
Blank ==
    [cls |-> None,
     lookml_name |-> <<>>,
     orig_name |-> <<>>,             \* name_orig, orig_name, source_field, element_name_orig
     owner |-> 0,                    \* lookml_project, lookml_model, lookml_view
     type |-> None,
     lookml_struct_type |-> None,
     parent_base_field |-> 0,
     logical_table_name |-> <<>>,
     first_object |-> 0,
     second_object |-> 0,
     join_type |-> "left_outer",
     join_sql_on |-> <<>>,           \* None is <<>>, the list l is <<l>>
     lookml_models |-> <<>>,
     lookml_dashboards |-> <<>>,
     lookml_dashboardelements |-> <<>>,
     lookml_views |-> <<>>,
     lookml_explores |-> <<>>,
     fields |-> <<>>,                \* the registry of a view, the list of an element
     pivots |-> <<>>,
     lookml_dashboard_elements |-> <<>>,
     lookml_model |-> 0,
     lookml_explore |-> 0,
     datatype |-> None,
     sql |-> <<>>,
     sql_table_items |-> <<>>,
     quote_char_start |-> "",
     quote_char_end |-> ""]

\* LookMLProject(); the quote character is the backtick, U+0060
LookMLProject ==
    [Blank EXCEPT !.cls = "LookMLProject", !.quote_char_start = "U+0060", !.quote_char_end = "U+0060"]

\* LookMLModel() followed by the assignment of name_orig
LookMLModel(name_orig) ==
    [Blank EXCEPT !.cls = "LookMLModel", !.orig_name = name_orig]

\* LookMLView(p_orig_name)
LookMLView(p_orig_name) ==
    [Blank EXCEPT !.cls = "LookMLView", !.orig_name = p_orig_name]

\* ViewBaseField(p_source_field)
ViewBaseField(p_source_field) ==
    [Blank EXCEPT !.cls = "ViewBaseField", !.orig_name = p_source_field,
                  !.type = "string", !.lookml_struct_type = "dimension"]

\* ViewDerivedField(p_source_field)
ViewDerivedField(p_source_field) ==
    [Blank EXCEPT !.cls = "ViewDerivedField", !.orig_name = p_source_field]

\* LookMLExplore(): the class attributes are the defaults of every instance
LookMLExplore == [Blank EXCEPT !.cls = "LookMLExplore"]

\* Dashboard() followed by the assignment of name_orig
Dashboard(name_orig) ==
    [Blank EXCEPT !.cls = "Dashboard", !.orig_name = name_orig]

\* DashboardElement() followed by the assignment of element_name_orig
DashboardElement(element_name_orig) ==
    [Blank EXCEPT !.cls = "DashboardElement", !.orig_name = element_name_orig]

\* registry.keys() and registry.values()
Keys(registry) == {registry[i][1] : i \in DOMAIN registry}
Values(registry) == {registry[i][2] : i \in DOMAIN registry}

\* ForFirstFree without the test "if name not in registry": candidate #0 is
\* taken whether or not it is a key
ForFirstFree_TakesCandidateZero(p_text, registry) ==
    [exc |-> None, name |-> lookml_name_generator(p_text, 0).value]

\* The loop "for name in lookml_name_generator(p_text): if name not in
\* registry: ... break": the first next() that raises or yields a name that is
\* no key ends it.  The candidates of one generator are pairwise different, so
\* that next() is among the first Len(registry) + 1.
ForFirstFree(p_text, registry) ==
    Bind({n \in 0..Min(Len(registry), RangeStop) :
             Bind(lookml_name_generator(p_text, n), LAMBDA o :
                 o.kind = "raise" \/ o.value \notin Keys(registry))},
         LAMBDA ends :
    Bind(lookml_name_generator(p_text, CHOOSE n \in ends : \A m \in ends : n <= m),
         LAMBDA o :
        IF o.kind = "raise" THEN [exc |-> o.value[1], name |-> <<>>]
        ELSE [exc |-> None, name |-> o.value]))

\* what an operation leaves behind: the heap and the exception it raised
Done(O) == [objs |-> O, exc |-> None]
Raised(O, e) == [objs |-> O, exc |-> e]

\* LookMLProject.add_lookml_model
add_lookml_model(O, self, p_lookml_model) ==
    IF p_lookml_model \in Values(O[self].lookml_models) THEN Done(O)
    ELSE Bind(ForFirstFree(O[p_lookml_model].orig_name, O[self].lookml_models), LAMBDA r :
             IF r.exc # None THEN Raised([O EXCEPT ![p_lookml_model].owner = self], r.exc)
             ELSE Done([O EXCEPT ![p_lookml_model].owner = self,
                                 ![self].lookml_models = Append(@, <<r.name, p_lookml_model>>),
                                 ![p_lookml_model].lookml_name = r.name]))

\* LookMLProject.add_lookml_dashboard
add_lookml_dashboard(O, self, p_lookml_dashboard) ==
    IF p_lookml_dashboard \in Values(O[self].lookml_dashboards) THEN Done(O)
    ELSE Bind(ForFirstFree(O[p_lookml_dashboard].orig_name, O[self].lookml_dashboards),
              LAMBDA r :
             IF r.exc # None THEN Raised([O EXCEPT ![p_lookml_dashboard].owner = self], r.exc)
             ELSE Done([O EXCEPT ![p_lookml_dashboard].owner = self,
                                 ![self].lookml_dashboards =
                                     Append(@, <<r.name, p_lookml_dashboard>>),
                                 ![p_lookml_dashboard].lookml_name = r.name]))

\* LookMLProject.add_lookml_dashboardelement
add_lookml_dashboardelement(O, self, p_lookml_dashboardelement) ==
    IF p_lookml_dashboardelement \in Values(O[self].lookml_dashboardelements) THEN Done(O)
    ELSE Bind(ForFirstFree(O[p_lookml_dashboardelement].orig_name,
                           O[self].lookml_dashboardelements),
              LAMBDA r :
             IF r.exc # None
             THEN Raised([O EXCEPT ![p_lookml_dashboardelement].owner = self], r.exc)
             ELSE Done([O EXCEPT ![p_lookml_dashboardelement].owner = self,
                                 ![self].lookml_dashboardelements =
                                     Append(@, <<r.name, p_lookml_dashboardelement>>),
                                 ![p_lookml_dashboardelement].lookml_name = r.name]))

\* add_lookml_view without the test "if p_lookml_view in
\* self.lookml_views.values(): return"
add_lookml_view_NoGuard(O, self, p_lookml_view) ==
    Bind(ForFirstFree(O[p_lookml_view].orig_name, O[self].lookml_views), LAMBDA r :
        IF r.exc # None THEN Raised([O EXCEPT ![p_lookml_view].owner = self], r.exc)
        ELSE Done([O EXCEPT ![p_lookml_view].owner = self,
                            ![self].lookml_views = Append(@, <<r.name, p_lookml_view>>),
                            ![p_lookml_view].lookml_name = r.name]))

\* LookMLModel.add_lookml_view
add_lookml_view(O, self, p_lookml_view) ==
    IF p_lookml_view \in Values(O[self].lookml_views) THEN Done(O)
    ELSE Bind(ForFirstFree(O[p_lookml_view].orig_name, O[self].lookml_views), LAMBDA r :
             IF r.exc # None THEN Raised([O EXCEPT ![p_lookml_view].owner = self], r.exc)
             ELSE Done([O EXCEPT ![p_lookml_view].owner = self,
                                 ![self].lookml_views = Append(@, <<r.name, p_lookml_view>>),
                                 ![p_lookml_view].lookml_name = r.name]))

RECURSIVE InnermostExplore(_, _)
\* next(self.yield_child_explores()): the explore at the end of the chain of
\* first_object references, the first one the generator yields
InnermostExplore(O, e) ==
    IF O[e].first_object # 0 /\ O[O[e].first_object].cls = "LookMLExplore"
    THEN InnermostExplore(O, O[e].first_object)
    ELSE e

\* LookMLModel.add_explore (it stores the model in the attribute lookml_view of
\* the explore, which nothing reads; the model does not keep it)
add_explore(O, self, p_lookml_explore) ==
    IF p_lookml_explore \in Values(O[self].lookml_explores) THEN Done(O)
    ELSE Bind(ForFirstFree(
                  IF O[p_lookml_explore].logical_table_name # <<>>
                  THEN O[p_lookml_explore].logical_table_name
                  ELSE O[O[InnermostExplore(O, p_lookml_explore)].first_object].lookml_name,
                  O[self].lookml_explores),
              LAMBDA r :
             IF r.exc # None THEN Raised(O, r.exc)
             ELSE Done([O EXCEPT ![self].lookml_explores =
                                     Append(@, <<r.name, p_lookml_explore>>),
                                 ![p_lookml_explore].lookml_name = r.name]))

\* LookMLView.add_base_field
add_base_field(O, self, p_base_field) ==
    IF p_base_field \in Values(O[self].fields) THEN Done(O)
    ELSE Bind(ForFirstFree(O[p_base_field].orig_name, O[self].fields), LAMBDA r :
             IF r.exc # None THEN Raised([O EXCEPT ![p_base_field].owner = self], r.exc)
             ELSE Done([O EXCEPT ![p_base_field].owner = self,
                                 ![self].fields = Append(@, <<r.name, p_base_field>>),
                                 ![p_base_field].lookml_name = r.name]))

\* str() of a LookMLMeasureTypeEnum member: StrEnum with auto() values, the
\* lowercased member name
MeasureTypeStr(type) ==
    CASE type = "sum" -> <<"s", "u", "m">>
      [] type = "count" -> <<"c", "o", "u", "n", "t">>
      [] type = "count_distinct" -> <<"c", "o", "u", "n", "t", "_",
                                      "d", "i", "s", "t", "i", "n", "c", "t">>
      [] type = "average" -> <<"a", "v", "e", "r", "a", "g", "e">>

\* LookMLView.add_derived_field
add_derived_field(O, self, p_derived_field) ==
    IF p_derived_field \in Values(O[self].fields) THEN Done(O)
    ELSE IF O[p_derived_field].type = None THEN Done(O)
    ELSE Bind(ForFirstFree(O[O[p_derived_field].parent_base_field].lookml_name
                               \o <<"_">> \o MeasureTypeStr(O[p_derived_field].type),
                           O[self].fields),
              LAMBDA r :
             IF r.exc # None THEN Raised(O, r.exc)
             ELSE Done([O EXCEPT ![self].fields = Append(@, <<r.name, p_derived_field>>),
                                 ![p_derived_field].lookml_name = r.name]))

(***************************************************************************)
(* The registry operations on their own, with labels of the caller's       *)
(* choice: an object is constructed and added to its owner's registry, as  *)
(* the translator does, and an object already registered may be added      *)
(* again.                                                                  *)
(***************************************************************************)
\* "a", "a ", "a_1" and "": labels whose candidates collide
RegLabels == {<<"a">>, <<"a", " ">>, <<"a", "_", "1">>, <<>>}

MeasureTypes == {"sum", "count", "count_distinct", "average"}

OfClass(O, cls) == {i \in DOMAIN O : O[i].cls = cls}

\* the one LookMLProject
TheProject == 1

Apply(r) == objs' = r.objs /\ exc' = r.exc /\ UNCHANGED <<gvars, nodes, ret>>

\* no generator object is kept between operations
NoGen == g_text = <<>> /\ g_calls = 0 /\ g_last = None

\* no property of a Tableau object was read
NoRead == [property |-> None, node |-> 0, val |-> 0, reads |-> 0]

\* no Tableau object is parsed
NoNodes == nodes = <<>> /\ ret = NoRead

RegInit ==
    /\ objs = <<LookMLProject>>
    /\ exc = None
    /\ NoGen
    /\ NoNodes

NewModel ==
    /\ Len(objs) < MaxObjs
    /\ \E name_orig \in RegLabels :
          Apply(add_lookml_model(Append(objs, LookMLModel(name_orig)),
                                 TheProject, Len(objs) + 1))

NewDashboard ==
    /\ Len(objs) < MaxObjs
    /\ \E name_orig \in RegLabels :
          Apply(add_lookml_dashboard(Append(objs, Dashboard(name_orig)),
                                     TheProject, Len(objs) + 1))

NewDashboardElement ==
    /\ Len(objs) < MaxObjs
    /\ \E element_name_orig \in RegLabels :
          Apply(add_lookml_dashboardelement(
                    Append(objs, DashboardElement(element_name_orig)),
                    TheProject, Len(objs) + 1))

NewView ==
    /\ Len(objs) < MaxObjs
    /\ \E m \in OfClass(objs, "LookMLModel"), orig_name \in RegLabels :
          Apply(add_lookml_view(Append(objs, LookMLView(orig_name)), m, Len(objs) + 1))

\* an explore over a view or an explore of the model, named after
\* logical_table_name when that is not empty
NewExplore ==
    /\ Len(objs) < MaxObjs
    /\ \E m \in OfClass(objs, "LookMLModel"), logical_table_name \in RegLabels :
       \E first \in Values(objs[m].lookml_views) \cup Values(objs[m].lookml_explores) :
          Apply(add_explore(
                    Append(objs, [LookMLExplore EXCEPT
                                     !.first_object = first,
                                     !.logical_table_name = logical_table_name]),
                    m, Len(objs) + 1))

NewBaseField ==
    /\ Len(objs) < MaxObjs
    /\ \E v \in OfClass(objs, "LookMLView"), source_field \in RegLabels :
          Apply(add_base_field(Append(objs, ViewBaseField(source_field)), v, Len(objs) + 1))

\* a derived field of a base field that is in a view, of a measure type or of
\* no type
NewDerivedField ==
    /\ Len(objs) < MaxObjs
    /\ \E f \in OfClass(objs, "ViewBaseField"), type \in MeasureTypes \cup {None} :
          /\ objs[f].owner # 0
          /\ f \in Values(objs[objs[f].owner].fields)
          /\ Apply(add_derived_field(
                       Append(objs, [ViewDerivedField(<<>>) EXCEPT
                                        !.parent_base_field = f, !.type = type]),
                       objs[f].owner, Len(objs) + 1))

\* the add operation of a registry, called with an object that registry holds
AddAgain ==
    \E self \in DOMAIN objs :
       \/ \E x \in Values(objs[self].lookml_models) : Apply(add_lookml_model(objs, self, x))
       \/ \E x \in Values(objs[self].lookml_dashboards) :
             Apply(add_lookml_dashboard(objs, self, x))
       \/ \E x \in Values(objs[self].lookml_dashboardelements) :
             Apply(add_lookml_dashboardelement(objs, self, x))
       \/ \E x \in Values(objs[self].lookml_views) : Apply(add_lookml_view(objs, self, x))
       \/ \E x \in Values(objs[self].lookml_explores) : Apply(add_explore(objs, self, x))
       \/ \E x \in Values(objs[self].fields) :
             IF objs[x].cls = "ViewBaseField"
             THEN Apply(add_base_field(objs, self, x))
             ELSE Apply(add_derived_field(objs, self, x))

RegNext ==
    \/ NewModel \/ NewDashboard \/ NewDashboardElement \/ NewView
    \/ NewExplore \/ NewBaseField \/ NewDerivedField \/ AddAgain

SpecReg == RegInit /\ [][RegNext]_vars

(***************************************************************************)
(* Claims about the registries, checked under SpecReg.                     *)
(***************************************************************************)
Registries ==
    {"lookml_models", "lookml_dashboards", "lookml_dashboardelements",
     "lookml_views", "lookml_explores", "fields"}

\* the label whose candidates name entity x: its original name; for an
\* explore logical_table_name or else the name of the view at the end of its
\* chain; for a derived field <parent>_<measure type>
ClaimLabel(O, x) ==
    CASE O[x].cls = "LookMLExplore" ->
             IF O[x].logical_table_name # <<>> THEN O[x].logical_table_name
             ELSE O[O[InnermostExplore(O, x)].first_object].lookml_name
      [] O[x].cls = "ViewDerivedField" ->
             O[O[x].parent_base_field].lookml_name \o <<"_">> \o MeasureTypeStr(O[x].type)
      [] OTHER -> O[x].orig_name

\* name is the first candidate of label that is not in keys
ClaimFirstAbsent(label, keys, name) ==
    \E n \in 0..Cardinality(keys) :
       /\ n < RangeStop
       /\ lookml_name_generator(label, n) = Yield(name)
       /\ name \notin keys
       /\ \A m \in 0..(n - 1) :
             /\ lookml_name_generator(label, m).kind = "yield"
             /\ lookml_name_generator(label, m).value \in keys

\* the entries of no registry share a key, nor an entity
ClaimDistinctKeys ==
    \A self \in DOMAIN objs, reg \in Registries :
       \A i, j \in DOMAIN objs[self][reg] :
          i # j => /\ objs[self][reg][i][1] # objs[self][reg][j][1]
                   /\ objs[self][reg][i][2] # objs[self][reg][j][2]

\* a step that changes a registry appends one entry, whose key is the first
\* candidate of the entity's label absent from the registry before the step
ClaimInsertsFirstAbsent ==
    \A self \in DOMAIN objs, reg \in Registries :
       LET old == objs[self][reg]
           new == objs'[self][reg]
       IN new # old =>
             /\ Len(new) = Len(old) + 1
             /\ SubSeq(new, 1, Len(old)) = old
             /\ ClaimFirstAbsent(ClaimLabel(objs', new[Len(new)][2]), Keys(old),
                                 new[Len(new)][1])

\* C1: over any sequence of add operations with arbitrary labels, every
\* successful insertion assigns the first allocator candidate absent from the
\* registry at that moment, and in every reachable state the identifiers of
\* the entities of one registry are pairwise distinct
C1_FirstAbsentCandidate ==
    []ClaimDistinctKeys /\ [][ClaimInsertsFirstAbsent]_vars

\* three models labelled "a", "a" and "a_1" are registered as "a", "a_1" and
\* "a_1_1"
C1_Witness ==
    \E i, j, k \in DOMAIN objs[TheProject].lookml_models :
       LET reg == objs[TheProject].lookml_models IN
       /\ i < j /\ j < k
       /\ objs[reg[i][2]].orig_name = <<"a">> /\ reg[i][1] = <<"a">>
       /\ objs[reg[j][2]].orig_name = <<"a">> /\ reg[j][1] = <<"a", "_", "1">>
       /\ objs[reg[k][2]].orig_name = <<"a", "_", "1">>
       /\ reg[k][1] = <<"a", "_", "1", "_", "1">>

\* the lookml_name of every registered entity is its key, and no entity is
\* in a registry twice
ClaimNameIsKey ==
    \A self \in DOMAIN objs, reg \in Registries :
       \A i \in DOMAIN objs[self][reg] :
          /\ objs[objs[self][reg][i][2]].lookml_name = objs[self][reg][i][1]
          /\ \A j \in DOMAIN objs[self][reg] :
                objs[self][reg][j][2] = objs[self][reg][i][2] => j = i

\* a step keeps the entries of every registry, in their order, and the
\* lookml_name of every registered entity
ClaimNeverReassigned ==
    \A self \in DOMAIN objs, reg \in Registries :
       LET old == objs[self][reg]
           new == objs'[self][reg]
       IN /\ Len(new) >= Len(old)
          /\ SubSeq(new, 1, Len(old)) = old
          /\ \A i \in DOMAIN old : objs'[old[i][2]].lookml_name = objs[old[i][2]].lookml_name

\* C5: an entity is inserted into its registry once and its identifier is
\* never reassigned: an add operation called with an entity the registry
\* holds leaves every registry and every lookml_name as it was, and in every
\* reachable state the lookml_name of a registered entity is its key
C5_InsertedOnce ==
    /\ []ClaimNameIsKey
    /\ [][ClaimNeverReassigned /\ (AddAgain => objs' = objs)]_vars

\* a model holds two views labelled "a ", registered as "a_" and "a_1", so
\* that each can be added again
C5_Witness ==
    \E m \in OfClass(objs, "LookMLModel") :
       \E i, j \in DOMAIN objs[m].lookml_views :
          LET reg == objs[m].lookml_views IN
          /\ i < j
          /\ objs[reg[i][2]].orig_name = <<"a", " ">> /\ reg[i][1] = <<"a", "_">>
          /\ objs[reg[j][2]].orig_name = <<"a", " ">> /\ reg[j][1] = <<"a", "_", "1">>
          /\ objs[reg[j][2]].lookml_name = <<"a", "_", "1">>

(***************************************************************************)
(* One registry filled with the candidates of one label, until the         *)
(* generator is exhausted: a model's views, all constructed with the       *)
(* orig_name of the first.                                                 *)
(***************************************************************************)
ExhaustLabels == {<<"a">>, <<"a", " ">>, <<>>}

\* the model of the exhaustion run, registered in the project as "a"
TheModel == 2

ExhaustInit ==
    /\ objs = add_lookml_model(<<LookMLProject, LookMLModel(<<"a">>)>>,
                               TheProject, TheModel).objs
    /\ exc = None
    /\ NoGen
    /\ NoNodes

ExhaustNewView ==
    /\ Len(objs) < 2 + RangeStop + MaxFailedAdds
    /\ \E orig_name \in ExhaustLabels :
          /\ Len(objs) > 2 => orig_name = objs[3].orig_name
          /\ Apply(add_lookml_view(Append(objs, LookMLView(orig_name)),
                                   TheModel, Len(objs) + 1))

\* add_lookml_view called again with the view constructed last, registered or
\* not
ExhaustAddAgain ==
    /\ Len(objs) > 2
    /\ Apply(add_lookml_view(objs, TheModel, Len(objs)))

ExhaustNext == ExhaustNewView \/ ExhaustAddAgain

SpecExhaust == ExhaustInit /\ [][ExhaustNext]_vars

(***************************************************************************)
(* The claim about an exhausted registry, checked under SpecExhaust.       *)
(***************************************************************************)
\* the 1,000 candidates of a label as the claims word them: candidate #0 and
\* <stripped-base>_<n> for n = 1..999
ClaimCandidate(label, n) ==
    IF n = 0 THEN ClaimCandidate0(label)
    ELSE ClaimStrippedBase(ClaimCandidate0(label)) \o <<"_">> \o Str(n)

ClaimAllTaken(label, registry) ==
    /\ Len(registry) >= 1000
    /\ \A n \in 0..999 : ClaimCandidate(label, n) \in Keys(registry)

\* a view that is not in the registry is added while all 1,000 candidates of
\* its label are keys: the operation raises, the registry is as before and
\* the view has no lookml_name
ClaimExhaustedAddFails ==
    LET x == Len(objs')
        old == objs[TheModel].lookml_views
    IN (x \notin Values(old) /\ ClaimAllTaken(objs'[x].orig_name, old))
          => /\ exc' # None
             /\ objs'[TheModel].lookml_views = old
             /\ objs'[x].lookml_name = <<>>

\* C4: when all 1,000 candidates of an entity's label are keys of the
\* registry, the add operation ends with an exception: the entity is not
\* inserted, it has no identifier, and the registry is unchanged
C4_ExhaustionFails ==
    [][ClaimExhaustedAddFails]_vars

\* the registry holds 1,000 views and an add has raised the generator's
\* RuntimeError, leaving a view that is not registered
C4_Witness ==
    /\ Len(objs[TheModel].lookml_views) = 1000
    /\ exc = "RuntimeError"
    /\ Len(objs) \notin Values(objs[TheModel].lookml_views)
    /\ objs[Len(objs)].lookml_name = <<>>

(***************************************************************************)
(* The Tableau objects (Tableau_objects.py).  nodes is the heap of the     *)
(* objects parsed from the workbook; one record shape serves every class.  *)
(* A str that is None or '' is the empty sequence where the code only      *)
(* tests its truth.  A dict is a sequence of <<key, value>> pairs in       *)
(* insertion order.                                                        *)
(***************************************************************************)
NBlank ==
    [cls |-> None,
     name |-> <<>>, caption |-> <<>>,
     connection |-> 0, object_graph |-> 0, _lookml_model |-> 0,
     parent_object |-> 0,
     rel_name |-> <<>>, rel_type |-> "", rel_join |-> "", rel_table |-> <<>>,
     rel_sql_text |-> <<>>, rel_object |-> 0, children_relations |-> <<>>,
     join_expression |-> <<>>,       \* None is <<>>, the expression e is <<e>>
     columns |-> <<>>, datasources |-> <<>>,
     _lookml_view |-> 0, _lookml_explore |-> 0,
     remote_name |-> <<>>, local_name |-> <<>>, parent_name |-> <<>>,
     local_type |-> None, relation |-> 0, column_instances |-> <<>>,
     _looker_field |-> 0,
     derivation |-> None, _lookml_derived_field |-> 0,
     type |-> None, role |-> None,
     worksheets |-> <<>>, used_column_instances |-> <<>>, panes |-> <<>>,
     rows |-> <<>>, cols |-> <<>>, pane_texts |-> <<>>, pane_wedge_sizes |-> <<>>,
     pane_colors |-> <<>>, _lookml_dashboardelement |-> 0,
     mark_class |-> "", encodings |-> <<>>,
     object_id |-> <<>>, logical_tables_dict |-> <<>>, relationships |-> <<>>,
     first_endpoint_id |-> <<>>, second_endpoint_id |-> <<>>]

\* d[k] = v on a dict
DictPut(d, k, v) ==
    IF \E i \in DOMAIN d : d[i][1] = k
    THEN [i \in DOMAIN d |-> IF d[i][1] = k THEN <<k, v>> ELSE d[i]]
    ELSE Append(d, <<k, v>>)

\* d.get(k), 0 for None
DictGet(d, k) ==
    IF \E i \in DOMAIN d : d[i][1] = k
    THEN d[CHOOSE i \in DOMAIN d : d[i][1] = k][2]
    ELSE 0

\* a or b on two str
Or(a, b) == IF a # <<>> THEN a ELSE b

\* without_square_brackets
without_square_brackets(p_text) ==
    IF p_text # <<>> /\ Head(p_text) = "[" /\ p_text[Len(p_text)] = "]"
    THEN SubSeq(p_text, 2, Len(p_text) - 1)
    ELSE p_text

RECURSIVE AfterLast(_, _)
\* s.split(c)[-1], and os.path.basename(s) for c = "/"
AfterLast(s, c) == IF c \notin Range(s) THEN s ELSE AfterLast(Tail(s), c)

\* s.replace('.', '_')
ReplaceDots(s) == [i \in DOMAIN s |-> IF s[i] = "." THEN "_" ELSE s[i]]

\* the whole reference as its only segment
FindBracketed_WholeReference(s) == IF s = <<>> THEN <<>> ELSE <<s>>

RECURSIVE FindBracketed(_)
\* re.findall(r'\[([^[]+)]', s): after a "[", the longest run of characters
\* other than "[" that a "]" follows, without that "]"
FindBracketed(s) ==
    IF s = <<>> THEN <<>>
    ELSE IF Head(s) # "[" THEN FindBracketed(Tail(s))
    ELSE LET rest == Tail(s)
             run == CHOOSE k \in 0..Len(rest) :
                       /\ \A i \in 1..k : rest[i] # "["
                       /\ k < Len(rest) => rest[k + 1] = "["
             closes == {i \in 2..run : rest[i] = "]"}
             close == CHOOSE i \in closes : \A j \in closes : j <= i
         IN IF closes = {} THEN FindBracketed(rest)
            ELSE <<SubSeq(rest, 1, close - 1)>>
                     \o FindBracketed(SubSeq(rest, close + 1, Len(rest)))

\* what a translator operation leaves behind: both heaps, the exception it
\* raised and the value it returned (0 for None)
Return(S, O, v) == [nodes |-> S, objs |-> O, exc |-> None, val |-> v]
Throw(S, O, e) == [nodes |-> S, objs |-> O, exc |-> e, val |-> 0]

RECURSIVE datasource(_, _)
\* the property datasource of Relation, LogicalTable and MetadataColumn: up
\* the parent_object chain to the Datasource
datasource(S, n) ==
    IF n = 0 THEN 0
    ELSE IF S[n].cls = "Datasource" THEN n
    ELSE datasource(S, S[n].parent_object)

\* Datasource.lookml_model
Datasource_lookml_model(S, O, self) ==
    IF S[self]._lookml_model # 0 THEN Return(S, O, S[self]._lookml_model)
    ELSE Bind(add_lookml_model(
                  Append(O, LookMLModel(
                                Or(S[self].caption,
                                   Or(S[self].name, <<"u", "n", "k", "n", "o", "w", "n", "_",
                                                      "m", "o", "d", "e", "l">>)))),
                  TheProject, Len(O) + 1),
              LAMBDA r :
             IF r.exc # None
             THEN Throw([S EXCEPT ![self]._lookml_model = Len(O) + 1], r.objs, r.exc)
             ELSE Return([S EXCEPT ![self]._lookml_model = Len(O) + 1], r.objs, Len(O) + 1))

\* Relation.lookml_view.  Both branches for a union assign to sql_table_name,
\* a property of LookMLView without a setter: AttributeError.
Relation_lookml_view(S, O, self) ==
    IF S[self].rel_type \notin {"table", "text", "union"} THEN Return(S, O, 0)
    ELSE IF S[self]._lookml_view # 0 THEN Return(S, O, S[self]._lookml_view)
    ELSE LET v == Len(O) + 1
             view_name_base ==
                 Or(S[self].rel_name,
                    Or(ReplaceDots(AfterLast(S[self].rel_table, "/")),
                       <<"u", "n", "k", "n", "o", "w", "n", "_", "v", "i", "e", "w">>))
             S1 == [S EXCEPT ![self]._lookml_view = v]
             O1 == Append(O, LookMLView(view_name_base))
             d == datasource(S, S[self].parent_object)
             items == FindBracketed(S[self].rel_table)
         IN IF d = 0 THEN Return(S1, O1, 0)
            ELSE Bind(Datasource_lookml_model(S1, O1, d), LAMBDA mr :
                 IF mr.exc # None THEN mr
                 ELSE Bind(add_lookml_view(mr.objs, mr.val, v), LAMBDA ar :
                      IF ar.exc # None THEN Throw(mr.nodes, ar.objs, ar.exc)
                      ELSE IF S[self].rel_type = "text"
                           THEN Return(mr.nodes,
                                       [ar.objs EXCEPT ![v].sql = S[self].rel_sql_text], v)
                      ELSE IF S[self].rel_type = "table"
                           THEN Return(mr.nodes,
                                       [ar.objs EXCEPT ![v].sql_table_items =
                                           [i \in DOMAIN items |->
                                               without_square_brackets(items[i])]],
                                       v)
                      ELSE Throw(mr.nodes, ar.objs, "AttributeError")))

\* type_mapping with real among the types it does not know
type_mapping_RealUnknown(local_type) ==
    CASE local_type = "string" -> "string"
      [] local_type = "integer" -> "number"
      [] local_type = "boolean" -> "yesno"
      [] local_type \in {"date", "datetime"} -> "time"
      [] OTHER -> "string"

\* the dict type_mapping of MetadataColumn.looker_field, with its default
type_mapping(local_type) ==
    CASE local_type = "string" -> "string"
      [] local_type \in {"integer", "real"} -> "number"
      [] local_type = "boolean" -> "yesno"
      [] local_type \in {"date", "datetime"} -> "time"
      [] OTHER -> "string"

\* MetadataColumn.looker_field
MetadataColumn_looker_field(S, O, self) ==
    IF S[self]._looker_field # 0 THEN Return(S, O, S[self]._looker_field)
    ELSE LET f == Len(O) + 1
             source_field ==
                 Or(S[self].remote_name,
                    Or(S[self].local_name,
                       <<"u", "n", "k", "n", "o", "w", "n", "_", "f", "i", "e", "l", "d">>))
             type == type_mapping(S[self].local_type)
             field == [ViewBaseField(source_field) EXCEPT
                          !.type = type,
                          !.datatype = IF type # "time" THEN None
                                       ELSE IF S[self].local_type = "date" THEN "date"
                                       ELSE "datetime",
                          !.lookml_struct_type = IF type = "time" THEN "dimension_group"
                                                 ELSE "dimension"]
         IN Return([S EXCEPT ![self]._looker_field = f], Append(O, field), f)

\* Relation.add_metacolumn
Relation_add_metacolumn(S, O, self, p_metacolumn) ==
    IF S[p_metacolumn].remote_name = <<>> THEN Return(S, O, 0)
    ELSE Bind(Relation_lookml_view(
                  [S EXCEPT ![self].columns =
                                DictPut(@, S[p_metacolumn].remote_name, p_metacolumn),
                            ![p_metacolumn].relation = self],
                  O, self),
              LAMBDA vr :
         IF vr.exc # None THEN vr
         ELSE IF vr.val = 0 THEN Return(vr.nodes, vr.objs, 0)
         ELSE Bind(MetadataColumn_looker_field(vr.nodes, vr.objs, p_metacolumn), LAMBDA fr :
              Bind(add_base_field(fr.objs, vr.val, fr.val), LAMBDA ar :
                  IF ar.exc # None THEN Throw(fr.nodes, ar.objs, ar.exc)
                  ELSE Return(fr.nodes, ar.objs, 0))))

RECURSIVE yield_relations(_, _)
RECURSIVE yield_relations_of(_, _)
\* Relation.yield_relations: the relation, then each child's relations
yield_relations(S, self) ==
    <<self>> \o yield_relations_of(S, S[self].children_relations)

yield_relations_of(S, children) ==
    IF children = <<>> THEN <<>>
    ELSE yield_relations(S, Head(children)) \o yield_relations_of(S, Tail(children))

\* ViewBaseField.sql of a field that is in a view of a model of the project
ViewBaseField_sql(O, self) ==
    LET project == O[O[O[O[self].owner].owner].owner] IN
    <<"$", "{", "T", "A", "B", "L", "E", "}", ".", project.quote_char_start>>
        \o O[self].orig_name \o <<project.quote_char_end, " ", ";", ";">>

\* derivation_mapping with the measure types of Count and CountD exchanged
derivation_mapping_CountExchanged(p_devivation_str) ==
    CASE p_devivation_str = "Sum" -> "sum"
      [] p_devivation_str = "Count" -> "count_distinct"
      [] p_devivation_str = "CountD" -> "count"
      [] p_devivation_str = "Avg" -> "average"
      [] OTHER -> None

\* the dict derivation_mapping of the setter of ViewDerivedField.derivation_str
derivation_mapping(p_devivation_str) ==
    CASE p_devivation_str = "Sum" -> "sum"
      [] p_devivation_str = "Count" -> "count"
      [] p_devivation_str = "CountD" -> "count_distinct"
      [] p_devivation_str = "Avg" -> "average"
      [] OTHER -> None

\* the setter with _year for every date truncation
ViewDerivedField_derivation_str_AllYear(O, self, p_devivation_str) ==
    LET type == derivation_mapping(p_devivation_str)
        parent == O[self].parent_base_field
    IN IF type # None
       THEN IF O[parent].owner = 0
            THEN Raised([O EXCEPT ![self].type = type,
                                  ![self].lookml_struct_type = "measure"],
                        "AttributeError")
            ELSE add_derived_field([O EXCEPT ![self].type = type,
                                             ![self].lookml_struct_type = "measure"],
                                   O[parent].owner, self)
       ELSE Done([O EXCEPT ![self].type = None,
                           ![self].lookml_struct_type = None,
                           ![self].lookml_name =
                               IF p_devivation_str \in {"Year", "Year-Trunc", "Month-Trunc",
                                                        "Quarter-Trunc"}
                               THEN O[parent].lookml_name \o <<"_", "y", "e", "a", "r">>
                               ELSE @])

\* the setter of ViewDerivedField.derivation_str; a parent base field that is
\* in no view has lookml_view None: AttributeError
ViewDerivedField_derivation_str(O, self, p_devivation_str) ==
    LET type == derivation_mapping(p_devivation_str)
        parent == O[self].parent_base_field
        suffix == CASE p_devivation_str \in {"Year", "Year-Trunc"} -> <<"_", "y", "e", "a", "r">>
                    [] p_devivation_str = "Month-Trunc" -> <<"_", "m", "o", "n", "t", "h">>
                    [] p_devivation_str = "Quarter-Trunc" ->
                           <<"_", "q", "u", "a", "r", "t", "e", "r">>
                    [] OTHER -> <<>>
    IN IF type # None
       THEN IF O[parent].owner = 0
            THEN Raised([O EXCEPT ![self].type = type,
                                  ![self].lookml_struct_type = "measure"],
                        "AttributeError")
            ELSE add_derived_field([O EXCEPT ![self].type = type,
                                             ![self].lookml_struct_type = "measure"],
                                   O[parent].owner, self)
       ELSE Done([O EXCEPT ![self].type = None,
                           ![self].lookml_struct_type = None,
                           ![self].lookml_name = IF suffix = <<>> THEN @
                                                 ELSE O[parent].lookml_name \o suffix])

\* ViewDerivedField.sql
ViewDerivedField_sql(O, self) ==
    IF O[self].type = None THEN <<>>
    ELSE <<"$", "{">> \o O[O[self].parent_base_field].lookml_name \o <<"}", " ", ";", ";">>

\* ColumnInstance.lookml_derived_field, of an instance of a MetadataColumn
ColumnInstance_lookml_derived_field(S, O, self) ==
    IF S[self]._lookml_derived_field # 0 THEN Return(S, O, S[self]._lookml_derived_field)
    ELSE IF S[self].parent_object = 0 THEN Return(S, O, 0)
    ELSE Bind(MetadataColumn_looker_field(S, O, S[self].parent_object), LAMBDA fr :
         Bind(ViewDerivedField_derivation_str(
                  Append(fr.objs, [ViewDerivedField(S[self].name) EXCEPT
                                      !.parent_base_field = fr.val]),
                  Len(fr.objs) + 1, S[self].derivation),
              LAMBDA sr :
             IF sr.exc # None THEN Throw(fr.nodes, sr.objs, sr.exc)
             ELSE Return([fr.nodes EXCEPT ![self]._lookml_derived_field = Len(fr.objs) + 1],
                         sr.objs, Len(fr.objs) + 1)))

\* MetadataColumn.add_column_instance, of a column-instance element that has
\* the attribute name.  The setter of ColumnInstance.raw_extract reads
\* lookml_derived_field.
MetadataColumn_add_column_instance(S, O, self, p_ci_extract) ==
    IF DictGet(S[self].column_instances, p_ci_extract.name) # 0
    THEN Return(S, O, DictGet(S[self].column_instances, p_ci_extract.name))
    ELSE Bind(ColumnInstance_lookml_derived_field(
                  Append(S, [NBlank EXCEPT !.cls = "ColumnInstance",
                                           !.parent_object = self,
                                           !.name = p_ci_extract.name,
                                           !.derivation = p_ci_extract.derivation,
                                           !.type = p_ci_extract.type]),
                  O, Len(S) + 1),
              LAMBDA dr :
             IF dr.exc # None THEN dr
             ELSE Return([dr.nodes EXCEPT ![self].column_instances =
                             DictPut(@, p_ci_extract.name, Len(S) + 1)],
                         dr.objs, Len(S) + 1))

\* one round of the loop of Connection.extract_metadata_columns, for a
\* metadata-record of class column: the first relation whose name or table
\* is the record's parent-name gets the column
extract_metadata_column(S, O, self, p_record) ==
    LET new_meta_column == Len(S) + 1
        S1 == Append(S, [NBlank EXCEPT !.cls = "MetadataColumn",
                                       !.parent_object = self,
                                       !.remote_name = p_record.remote_name,
                                       !.local_name = p_record.local_name,
                                       !.parent_name = p_record.parent_name,
                                       !.local_type = p_record.local_type])
        rels == IF S[self].relation = 0 THEN <<>> ELSE yield_relations(S, S[self].relation)
        normalized_parent_name == without_square_brackets(p_record.parent_name)
        found == {i \in DOMAIN rels :
                    /\ normalized_parent_name # <<>>
                    /\ \/ normalized_parent_name = without_square_brackets(S[rels[i]].rel_name)
                       \/ normalized_parent_name =
                              without_square_brackets(AfterLast(S[rels[i]].rel_table, "."))}
        rel == rels[CHOOSE i \in found : \A j \in found : i <= j]
    IN IF found = {} THEN Return(S1, O, 0)
       ELSE Relation_add_metacolumn(S1, O, rel, new_meta_column)

\* one round of the inner loop of Worksheet.extract_column_instances, for a
\* column-instance element of a dependency on datasource act_ds: the first
\* relation that has the column gets the instance
extract_column_instance(S, O, act_ds, p_data) ==
    LET act_column_name_wo_brackets == without_square_brackets(AfterLast(p_data.column, "."))
        rels == IF S[act_ds].connection = 0 \/ S[S[act_ds].connection].relation = 0 THEN <<>>
                ELSE yield_relations(S, S[S[act_ds].connection].relation)
        found == {i \in DOMAIN rels :
                    DictGet(S[rels[i]].columns, act_column_name_wo_brackets) # 0}
        rel == rels[CHOOSE i \in found : \A j \in found : i <= j]
    IN IF p_data.column = <<>> \/ found = {} THEN Return(S, O, 0)
       ELSE MetadataColumn_add_column_instance(
                S, O, DictGet(S[rel].columns, act_column_name_wo_brackets), p_data)

\* Relationship._get_join_type_enum, with the default of mapping.get
_get_join_type_enum(join_str) ==
    CASE join_str = "inner" -> "inner"
      [] join_str = "left" -> "left_outer"
      [] join_str = "right" -> "full_outer"
      [] join_str = "full" -> "full_outer"
      [] OTHER -> "left_outer"

RECURSIVE Relation_lookml_explore(_, _, _)
\* Relation.lookml_explore.  For a join it reads of each of the first two
\* children lookml_explore or else lookml_view, and then calls
\* Relationship._get_join_type_enum on the class with rel_join for self and
\* no join_str: TypeError.
Relation_lookml_explore(S, O, self) ==
    IF S[self]._lookml_explore # 0 THEN Return(S, O, S[self]._lookml_explore)
    ELSE IF S[self].rel_type \notin {"table", "text", "union", "join"} THEN Return(S, O, 0)
    ELSE IF S[self].rel_type = "join"
    THEN IF Len(S[self].children_relations) < 2 THEN Return(S, O, 0)
         ELSE Bind(Bind(Relation_lookml_explore(S, O, S[self].children_relations[1]),
                        LAMBDA r : IF r.exc # None \/ r.val # 0 THEN r
                                   ELSE Relation_lookml_view(r.nodes, r.objs,
                                                             S[self].children_relations[1])),
                   LAMBDA c1 :
              IF c1.exc # None \/ c1.val = 0 THEN c1
              ELSE Bind(Bind(Relation_lookml_explore(c1.nodes, c1.objs,
                                                     S[self].children_relations[2]),
                             LAMBDA r : IF r.exc # None \/ r.val # 0 THEN r
                                        ELSE Relation_lookml_view(r.nodes, r.objs,
                                                                  S[self].children_relations[2])),
                        LAMBDA c2 :
                   IF c2.exc # None \/ c2.val = 0 THEN c2
                   ELSE Throw(c2.nodes, c2.objs, "TypeError")))
    ELSE Bind(Relation_lookml_view(S, O, self), LAMBDA vr :
         IF vr.exc # None THEN vr
         ELSE IF vr.val = 0 THEN Return(vr.nodes, vr.objs, 0)
         ELSE IF datasource(S, S[self].parent_object) = 0
         THEN Return([vr.nodes EXCEPT ![self]._lookml_explore = Len(vr.objs) + 1],
                     Append(vr.objs, [LookMLExplore EXCEPT
                                         !.join_sql_on = <<(<<>>)>>,
                                         !.first_object = vr.val,
                                         !.logical_table_name = vr.objs[vr.val].lookml_name]),
                     0)
         ELSE Bind(Datasource_lookml_model(
                       [vr.nodes EXCEPT ![self]._lookml_explore = Len(vr.objs) + 1],
                       Append(vr.objs, [LookMLExplore EXCEPT
                                           !.join_sql_on = <<(<<>>)>>,
                                           !.first_object = vr.val,
                                           !.logical_table_name = vr.objs[vr.val].lookml_name]),
                       datasource(S, S[self].parent_object)),
                   LAMBDA mr :
              IF mr.exc # None THEN mr
              ELSE Bind(add_explore(mr.objs, mr.val, Len(vr.objs) + 1), LAMBDA ar :
                   IF ar.exc # None THEN Throw(mr.nodes, ar.objs, ar.exc)
                   ELSE Return(mr.nodes, ar.objs, Len(vr.objs) + 1))))

\* LogicalTable.lookml_explore: the explore of its relation, or else an
\* explore of the view of its relation that is made at every read
LogicalTable_lookml_explore(S, O, self) ==
    IF S[self].relation = 0 THEN Return(S, O, 0)
    ELSE Bind(Relation_lookml_explore(S, O, S[self].relation), LAMBDA er :
         IF er.exc # None \/ er.val # 0 THEN er
         ELSE Bind(Relation_lookml_view(er.nodes, er.objs, S[self].relation), LAMBDA vr :
              IF vr.exc # None THEN vr
              ELSE IF vr.val = 0 THEN Return(vr.nodes, vr.objs, 0)
              ELSE IF datasource(S, S[self].parent_object) = 0
              THEN Return(vr.nodes,
                          Append(vr.objs, [LookMLExplore EXCEPT
                                              !.first_object = vr.val,
                                              !.logical_table_name = vr.objs[vr.val].lookml_name]),
                          Len(vr.objs) + 1)
              ELSE Bind(Datasource_lookml_model(
                            vr.nodes,
                            Append(vr.objs, [LookMLExplore EXCEPT
                                                !.first_object = vr.val,
                                                !.logical_table_name =
                                                    vr.objs[vr.val].lookml_name]),
                            datasource(S, S[self].parent_object)),
                        LAMBDA mr :
                   IF mr.exc # None THEN mr
                   ELSE Bind(add_explore(mr.objs, mr.val, Len(vr.objs) + 1), LAMBDA ar :
                        IF ar.exc # None THEN Throw(mr.nodes, ar.objs, ar.exc)
                        ELSE Return(mr.nodes, ar.objs, Len(vr.objs) + 1)))))

\* Relationship.first_logical_table and Relationship.second_logical_table
first_logical_table(S, self) ==
    DictGet(S[S[self].parent_object].logical_tables_dict, S[self].first_endpoint_id)

\* the second logical table, and the first one where there is no second
second_logical_table_OrFirst(S, self) ==
    IF DictGet(S[S[self].parent_object].logical_tables_dict, S[self].second_endpoint_id) # 0
    THEN DictGet(S[S[self].parent_object].logical_tables_dict, S[self].second_endpoint_id)
    ELSE first_logical_table(S, self)

second_logical_table(S, self) ==
    DictGet(S[S[self].parent_object].logical_tables_dict, S[self].second_endpoint_id)

\* the column of the name on either side, the first logical table first
_metacolumn_from_relationship_AnySide(S, self, p_relationship) ==
    LET lts == <<first_logical_table(S, p_relationship),
                 second_logical_table(S, p_relationship)>>
        found == {i \in 1..2 : /\ lts[i] # 0
                               /\ S[lts[i]].relation # 0
                               /\ DictGet(S[S[lts[i]].relation].columns, self.op) # 0}
    IN IF self.children_expressions # <<>> \/ found = {} THEN 0
       ELSE DictGet(S[S[lts[CHOOSE i \in found : \A k \in found : i <= k]].relation].columns,
                    self.op)

\* JoinExpression._metacolumn_from_relationship, which JoinExpression.metacolumn
\* calls for an expression without children in a Relationship; a
\* JoinExpression is the record of its op, index and children_expressions
_metacolumn_from_relationship(S, self, p_relationship) ==
    LET lt == IF self.index = 0 THEN first_logical_table(S, p_relationship)
              ELSE IF self.index = 1 THEN second_logical_table(S, p_relationship)
              ELSE 0
        rels == IF lt = 0 \/ S[lt].relation = 0 THEN <<>>
                ELSE yield_relations(S, S[lt].relation)
        found == {i \in DOMAIN rels : DictGet(S[rels[i]].columns, self.op) # 0}
    IN IF self.children_expressions # <<>> \/ found = {} THEN 0
       ELSE DictGet(S[rels[CHOOSE i \in found : \A j \in found : i <= j]].columns, self.op)

\* the predicates before the first condition that has no two columns
yield_joins_StopAtGap(S, self, p_relationship) ==
    LET join_conditions == IF self.op = <<"A", "N", "D">> THEN self.children_expressions
                           ELSE <<self>>
        mc(cond_expr, i) ==
            IF Len(cond_expr.children_expressions) # 2 THEN 0
            ELSE LET c == cond_expr.children_expressions[i]
                     lt == IF i = 1 THEN first_logical_table(S, p_relationship)
                           ELSE second_logical_table(S, p_relationship)
                 IN IF lt = 0 \/ S[lt].relation = 0 THEN 0
                    ELSE DictGet(S[S[lt].relation].columns, c.op)
        gaps == {i \in DOMAIN join_conditions :
                    mc(join_conditions[i], 1) = 0 \/ mc(join_conditions[i], 2) = 0}
        stop == IF gaps = {} THEN Len(join_conditions) + 1
                ELSE CHOOSE i \in gaps : \A k \in gaps : i <= k
    IN [k \in 1..(stop - 1) |->
           <<mc(join_conditions[k], 1), join_conditions[k].op, mc(join_conditions[k], 2)>>]

\* html.unescape on the operators of a join clause
unescape(op) ==
    CASE op = <<"&", "l", "t", ";">> -> <<"<">>
      [] op = <<"&", "g", "t", ";">> -> <<">">>
      [] op = <<"&", "l", "t", ";", "=">> -> <<"<", "=">>
      [] op = <<"&", "g", "t", ";", "=">> -> <<">", "=">>
      [] op = <<"&", "l", "t", ";", "&", "g", "t", ";">> -> <<"<", ">">>
      [] OTHER -> op

\* JoinExpression.yield_joins of the expression of a Relationship: of every
\* condition with two children that both have a metadata column, the two
\* columns and the operator
yield_joins(S, self, p_relationship) ==
    LET join_conditions == IF self.op = <<"A", "N", "D">> THEN self.children_expressions
                           ELSE <<self>>
        mc(cond_expr, i) ==
            _metacolumn_from_relationship(S, cond_expr.children_expressions[i], p_relationship)
        at == {i \in DOMAIN join_conditions :
                  /\ Len(join_conditions[i].children_expressions) = 2
                  /\ mc(join_conditions[i], 1) # 0
                  /\ mc(join_conditions[i], 2) # 0}
        nth(k) == CHOOSE i \in at : Cardinality({j \in at : j <= i}) = k
    IN [k \in 1..Cardinality(at) |->
           <<mc(join_conditions[nth(k)], 1), unescape(join_conditions[nth(k)].op),
             mc(join_conditions[nth(k)], 2)>>]

RECURSIVE AppendJoins(_, _, _, _)
\* for mc1_field, join_rel_op, mc2_field in ...yield_joins():
\*     explore.join_sql_on.append(...)
\* yield_joins reads looker_field of both columns before it yields; append on
\* the None of an explore whose join_sql_on was never assigned: AttributeError
AppendJoins(S, O, p_explore, joins) ==
    IF joins = <<>> THEN Return(S, O, p_explore)
    ELSE Bind(MetadataColumn_looker_field(S, O, Head(joins)[1]), LAMBDA f1 :
         Bind(MetadataColumn_looker_field(f1.nodes, f1.objs, Head(joins)[3]), LAMBDA f2 :
             IF f2.objs[p_explore].join_sql_on = <<>>
             THEN Throw(f2.nodes, f2.objs, "AttributeError")
             ELSE AppendJoins(f2.nodes,
                              [f2.objs EXCEPT ![p_explore].join_sql_on =
                                  <<Append(@[1], <<f1.val, Head(joins)[2], f2.val>>)>>],
                              p_explore, Tail(joins))))

RECURSIVE ChainExplores(_, _, _, _, _)
\* the loop "for act_relationship in self.relationships" of
\* ObjectGraph.gen_lookml_explore, from the i-th relationship on, with
\* main_explore_chain_head
ChainExplores(S, O, self, i, main_explore_chain_head) ==
    IF i > Len(S[self].relationships) THEN Return(S, O, main_explore_chain_head)
    ELSE IF second_logical_table(S, S[self].relationships[i]) = 0
    THEN ChainExplores(S, O, self, i + 1, main_explore_chain_head)
    ELSE Bind(LogicalTable_lookml_explore(
                  S, O, second_logical_table(S, S[self].relationships[i])),
              LAMBDA sr :
         IF sr.exc # None THEN sr
         ELSE IF sr.val = 0
         THEN ChainExplores(sr.nodes, sr.objs, self, i + 1, main_explore_chain_head)
         ELSE Bind(AppendJoins(
                       sr.nodes,
                       Append(sr.objs,
                              [LookMLExplore EXCEPT
                                  !.first_object = main_explore_chain_head,
                                  !.second_object =
                                      IF sr.objs[sr.objs[sr.val].first_object].cls = "LookMLView"
                                      THEN sr.objs[sr.val].first_object
                                      ELSE sr.val,
                                  !.join_type =
                                      _get_join_type_enum(S[S[self].relationships[i]].rel_join)]),
                       Len(sr.objs) + 1,
                       IF S[S[self].relationships[i]].join_expression = <<>> THEN <<>>
                       ELSE yield_joins(sr.nodes, S[S[self].relationships[i]].join_expression[1],
                                        S[self].relationships[i])),
                   LAMBDA jr :
              IF jr.exc # None THEN jr
              ELSE ChainExplores(jr.nodes, jr.objs, self, i + 1, jr.val)))

\* the end of ObjectGraph.gen_lookml_explore: the explore is cached and added
\* to the model of the datasource
AddFinalExplore(S, O, self, p_explore) ==
    Bind(Datasource_lookml_model([S EXCEPT ![self]._lookml_explore = p_explore], O,
                                 S[self].parent_object),
         LAMBDA mr :
        IF mr.exc # None THEN mr
        ELSE Bind(add_explore(mr.objs, mr.val, p_explore), LAMBDA ar :
             IF ar.exc # None THEN Throw(mr.nodes, ar.objs, ar.exc)
             ELSE Return(mr.nodes, ar.objs, p_explore)))

\* ObjectGraph.gen_lookml_explore, and ObjectGraph.lookml_explore which calls
\* it unless the explore is cached
gen_lookml_explore(S, O, self) ==
    IF S[self]._lookml_explore # 0 THEN Return(S, O, S[self]._lookml_explore)
    ELSE IF S[self].logical_tables_dict = <<>> THEN Return(S, O, 0)
    ELSE IF S[self].relationships = <<>>
    THEN IF S[S[self].logical_tables_dict[1][2]].relation = 0 THEN Return(S, O, 0)
         ELSE Bind(Relation_lookml_view(S, O, S[S[self].logical_tables_dict[1][2]].relation),
                   LAMBDA vr :
              IF vr.exc # None THEN vr
              ELSE IF vr.val = 0 THEN Return(vr.nodes, vr.objs, 0)
              ELSE AddFinalExplore(
                       vr.nodes,
                       Append(vr.objs, [LookMLExplore EXCEPT
                                           !.first_object = vr.val,
                                           !.logical_table_name = vr.objs[vr.val].lookml_name]),
                       self, Len(vr.objs) + 1))
    ELSE IF first_logical_table(S, S[self].relationships[1]) = 0 THEN Return(S, O, 0)
    ELSE Bind(LogicalTable_lookml_explore(
                  S, O, first_logical_table(S, S[self].relationships[1])),
              LAMBDA hr :
         IF hr.exc # None THEN hr
         ELSE IF hr.val = 0 THEN Return(hr.nodes, hr.objs, 0)
         ELSE Bind(ChainExplores(hr.nodes, hr.objs, self, 1, hr.val), LAMBDA cr :
              IF cr.exc # None THEN cr
              ELSE AddFinalExplore(cr.nodes, cr.objs, self, cr.val)))

\* what makes two relation elements equal as parsed dicts
RawRelation(S, self) == <<S[self].rel_type, S[self].rel_name, S[self].rel_table>>

RECURSIVE extract_logical_tables(_, _, _)
\* ObjectGraph.extract_logical_tables with the setter of
\* LogicalTable.raw_extract, for objects with one relation property: the
\* first relation of the connection that equals the object's relation is
\* linked
extract_logical_tables(S, self, objects_data) ==
    IF objects_data = <<>> THEN S
    ELSE LET new_object == Len(S) + 1
             conn == S[S[self].parent_object].connection
             rels == IF conn = 0 \/ S[conn].relation = 0 THEN <<>>
                     ELSE yield_relations(S, S[conn].relation)
             found == {i \in DOMAIN rels : RawRelation(S, rels[i]) = Head(objects_data).relation}
             act_rel == IF found = {} THEN 0
                        ELSE rels[CHOOSE i \in found : \A j \in found : i <= j]
         IN extract_logical_tables(
                [Append(S, [NBlank EXCEPT !.cls = "LogicalTable",
                                          !.parent_object = self,
                                          !.object_id = Head(objects_data).id,
                                          !.relation = act_rel])
                    EXCEPT ![IF act_rel = 0 THEN new_object ELSE act_rel].rel_object =
                               IF act_rel = 0 THEN @ ELSE new_object,
                           ![self].logical_tables_dict =
                               IF Head(objects_data).id = <<>> THEN @
                               ELSE DictPut(@, Head(objects_data).id, new_object)],
                self, Tail(objects_data))

RECURSIVE extract_relationships(_, _, _)
\* ObjectGraph.extract_relationships with the setter of Relationship.raw_extract
extract_relationships(S, self, relationships_data) ==
    IF relationships_data = <<>> THEN S
    ELSE extract_relationships(
             [Append(S, [NBlank EXCEPT
                            !.cls = "Relationship",
                            !.parent_object = self,
                            !.first_endpoint_id = Head(relationships_data).first,
                            !.second_endpoint_id = Head(relationships_data).second,
                            !.rel_join = Head(relationships_data).join,
                            !.join_expression = Head(relationships_data).expression])
                 EXCEPT ![self].relationships = Append(@, Len(S) + 1)],
             self, Tail(relationships_data))

\* the rest of the setter of Datasource.raw_extract after extract_connection:
\* extract_object_graph with the setter of ObjectGraph.raw_extract, which ends
\* reading lookml_explore, then the read of lookml_model; and the end of the
\* round of Workbook.extract_datasources, which registers the datasource.
\* p_object_data is <<>> for a datasource without object-graph.
extract_object_graph(S, O, self, p_object_data) ==
    Bind(IF p_object_data = <<>> THEN Return(S, O, 0)
         ELSE gen_lookml_explore(
                  extract_relationships(
                      extract_logical_tables(
                          Append([S EXCEPT ![self].object_graph = Len(S) + 1],
                                 [NBlank EXCEPT !.cls = "ObjectGraph", !.parent_object = self]),
                          Len(S) + 1, p_object_data[1].objects),
                      Len(S) + 1, p_object_data[1].relationships),
                  O, Len(S) + 1),
         LAMBDA gr :
        IF gr.exc # None THEN gr
        ELSE Bind(Datasource_lookml_model(gr.nodes, gr.objs, self), LAMBDA mr :
             IF mr.exc # None \/ S[self].name = <<>> THEN mr
             ELSE Return([mr.nodes EXCEPT ![S[self].parent_object].datasources =
                                              DictPut(@, S[self].name, self)],
                         mr.objs, 0)))

RECURSIVE yield_child_explores_SelfFirst(_, _)
\* the chain of first_object in the order of the queue, the explore itself
\* first
yield_child_explores_SelfFirst(O, self) ==
    IF O[self].first_object # 0 /\ O[O[self].first_object].cls = "LookMLExplore"
    THEN <<self>> \o yield_child_explores_SelfFirst(O, O[self].first_object)
    ELSE <<self>>

RECURSIVE yield_child_explores(_, _)
\* LookMLExplore.yield_child_explores: the chain of first_object, innermost
\* explore first
yield_child_explores(O, self) ==
    IF O[self].first_object # 0 /\ O[O[self].first_object].cls = "LookMLExplore"
    THEN yield_child_explores(O, O[self].first_object) \o <<self>>
    ELSE <<self>>

\* the join blocks that LookMLExplore.lookml_str writes, each by its
\* second_object, in the order of the text; the loop over join_sql_on of an
\* explore with second_object raises on None: TypeError
lookml_str(O, self) ==
    LET es == yield_child_explores(O, self)
        at == {i \in DOMAIN es : O[es[i]].second_object # 0}
        nth(k) == CHOOSE i \in at : Cardinality({j \in at : j <= i}) = k
    IN IF \E i \in at : O[es[i]].join_sql_on = <<>>
       THEN [exc |-> "TypeError", joins |-> <<>>]
       ELSE [exc |-> None, joins |-> [k \in 1..Cardinality(at) |-> O[es[nth(k)]].second_object]]

(***************************************************************************)
(* The translation of a datasource of one table: its metadata records and  *)
(* the column instances of a worksheet.                                    *)
(***************************************************************************)
TheDatasource == 1
TheConnection == 2

\* the datasource "ds" with a connection whose relation is the table orders
OneTable ==
    <<[NBlank EXCEPT !.cls = "Datasource", !.name = <<"d", "s">>,
                     !.connection = TheConnection],
      [NBlank EXCEPT !.cls = "Connection", !.parent_object = TheDatasource, !.relation = 3],
      [NBlank EXCEPT !.cls = "Relation", !.parent_object = TheConnection,
                     !.rel_type = "table", !.rel_join = "inner",
                     !.rel_name = <<"o", "r", "d", "e", "r", "s">>,
                     !.rel_table = <<"[", "s", "]", ".", "[", "o", "r", "d", "e", "r", "s", "]">>]>>

\* a metadata-record of class column
MetadataRecord(parent, remote_name, local_type) ==
    [remote_name |-> remote_name, local_name |-> <<"[">> \o remote_name \o <<"]">>,
     parent_name |-> <<"[">> \o parent \o <<"]">>, local_type |-> local_type]

\* metadata records of orders: id, name and amount, ID whose identifier
\* collides with that of id, id_sum whose identifier is the label of the sum
\* of id, columns of the other local types, and a record without remote-name
ViewColumnInputs ==
    {MetadataRecord(<<"o", "r", "d", "e", "r", "s">>, <<"i", "d">>, "integer"),
     MetadataRecord(<<"o", "r", "d", "e", "r", "s">>,
                    <<"i", "d", "_", "s", "u", "m">>, "integer"),
     MetadataRecord(<<"o", "r", "d", "e", "r", "s">>, <<"n", "a", "m", "e">>, "string"),
     MetadataRecord(<<"o", "r", "d", "e", "r", "s">>,
                    <<"a", "m", "o", "u", "n", "t">>, "real"),
     MetadataRecord(<<"o", "r", "d", "e", "r", "s">>, <<"I", "D">>, "boolean"),
     MetadataRecord(<<"o", "r", "d", "e", "r", "s">>, <<"d">>, "date"),
     MetadataRecord(<<"o", "r", "d", "e", "r", "s">>, <<"t">>, "datetime"),
     MetadataRecord(<<"o", "r", "d", "e", "r", "s">>, <<"g">>, "spatial"),
     MetadataRecord(<<"o", "r", "d", "e", "r", "s">>, <<>>, "string")}

\* column-instance elements: the four aggregations, a date truncation, a
\* derivation outside the vocabulary, and no derivation
ViewInstanceInputs ==
    {[column |-> <<"[">> \o c \o <<"]">>, name |-> <<"[", "c", "i", "]">>, derivation |-> d,
      type |-> None] :
        c \in {<<"i", "d">>, <<"a", "m", "o", "u", "n", "t">>, <<"d">>},
        d \in {"Sum", "Count", "CountD", "Avg", "Year", "Year-Trunc", "Month-Trunc",
               "Quarter-Trunc", "Median", None}}

NodesOfClass(S, cls) == {i \in DOMAIN S : S[i].cls = cls}

\* the outcome of a translator operation becomes the state
ApplyT(r, read) ==
    /\ objs' = r.objs
    /\ exc' = r.exc
    /\ nodes' = r.nodes
    /\ ret' = read
    /\ UNCHANGED gvars

ViewInit ==
    /\ objs = <<LookMLProject>>
    /\ exc = None
    /\ NoGen
    /\ nodes = OneTable
    /\ ret = NoRead

ViewExtractMetadataColumn ==
    /\ Cardinality(NodesOfClass(nodes, "MetadataColumn")) < MaxCols
    /\ \E record \in ViewColumnInputs :
          ApplyT(extract_metadata_column(nodes, objs, TheConnection, record), NoRead)

ViewExtractColumnInstance ==
    /\ Cardinality(NodesOfClass(nodes, "ColumnInstance")) < MaxInstances
    /\ \E data \in ViewInstanceInputs :
          ApplyT(extract_column_instance(nodes, objs, TheDatasource, data), NoRead)

ViewNext == ViewExtractMetadataColumn \/ ViewExtractColumnInstance

SpecView == ViewInit /\ [][ViewNext]_vars
(***************************************************************************)
(* Claims about the view of a table and its fields, checked under          *)
(* SpecView.                                                               *)
(***************************************************************************)
TheTable == 3

\* the metadata columns attached to relation r, in the order of attachment
ClaimAttached(r) ==
    LET mcs == {i \in DOMAIN nodes : nodes[i].cls = "MetadataColumn" /\ nodes[i].relation = r}
        nth(k) == CHOOSE i \in mcs : Cardinality({j \in mcs : j <= i}) = k
    IN [k \in 1..Cardinality(mcs) |-> nth(k)]

\* the fields of class cls registered in view v, in the order of the registry
ClaimFieldsOf(v, cls) ==
    LET reg == objs[v].fields
        at == {i \in DOMAIN reg : objs[reg[i][2]].cls = cls}
        nth(k) == CHOOSE i \in at : Cardinality({j \in at : j <= i}) = k
    IN [k \in 1..Cardinality(at) |-> reg[nth(k)]]

\* the kind of a base field by the local type of its column
ClaimKind(local_type) ==
    CASE local_type \in {"integer", "real"} -> "number"
      [] local_type = "string" -> "string"
      [] local_type = "boolean" -> "yesno"
      [] local_type \in {"date", "datetime"} -> "time"
      [] OTHER -> "string"

\* ${TABLE}.<quote><source column name><quote> ;;
ClaimBaseSql(name) ==
    <<"$", "{", "T", "A", "B", "L", "E", "}", ".", objs[TheProject].quote_char_start>>
        \o name \o <<objs[TheProject].quote_char_end, " ", ";", ";">>

\* C8: the view of the table relation has exactly one base field per attached
\* metadata column, in attachment order; the identifiers of the fields of the
\* view are pairwise different; each base field has the SQL
\* ${TABLE}.<quote><source column name><quote> ;; and the kind of its column's
\* local type (integer, real: number; string: string; boolean: yesno; date,
\* datetime: time; any other: string)
C8_BaseFieldsOfTable ==
    LET attached == ClaimAttached(TheTable)
        view == nodes[TheTable]._lookml_view
        base == ClaimFieldsOf(view, "ViewBaseField")
    IN Len(attached) >= 1 =>
          /\ view # 0
          /\ view \in Values(objs[objs[view].owner].lookml_views)
          /\ Len(base) = Len(attached)
          /\ \A i, j \in DOMAIN objs[view].fields :
                i # j => objs[view].fields[i][1] # objs[view].fields[j][1]
          /\ \A k \in DOMAIN attached :
                LET mc == nodes[attached[k]]
                    f == base[k][2]
                IN /\ mc._looker_field = f
                   /\ objs[f].lookml_name = base[k][1]
                   /\ objs[f].owner = view
                   /\ objs[f].type = ClaimKind(mc.local_type)
                   /\ ViewBaseField_sql(objs, f) = ClaimBaseSql(mc.remote_name)

\* id:integer, name:string and amount:real are attached in this order and the
\* view has the three base fields id, name and amount of kinds number, string
\* and number
C8_Witness ==
    LET attached == ClaimAttached(TheTable)
        view == nodes[TheTable]._lookml_view
    IN /\ Len(attached) = 3
       /\ [k \in 1..3 |-> nodes[attached[k]].remote_name]
             = <<(<<"i", "d">>), (<<"n", "a", "m", "e">>), (<<"a", "m", "o", "u", "n", "t">>)>>
       /\ [k \in 1..3 |-> nodes[attached[k]].local_type] = <<"integer", "string", "real">>
       /\ view # 0
       /\ Len(objs[view].fields) = 3
       /\ [k \in 1..3 |-> objs[view].fields[k][1]]
             = <<(<<"i", "d">>), (<<"n", "a", "m", "e">>), (<<"a", "m", "o", "u", "n", "t">>)>>
       /\ [k \in 1..3 |-> objs[objs[view].fields[k][2]].type] = <<"number", "string", "number">>

\* the measure type of an aggregation and its name in an identifier
ClaimMeasureType(derivation) ==
    CASE derivation = "Sum" -> "sum"
      [] derivation = "Count" -> "count"
      [] derivation = "CountD" -> "count_distinct"
      [] derivation = "Avg" -> "average"

ClaimAggregation(derivation) ==
    CASE derivation = "Sum" -> <<"s", "u", "m">>
      [] derivation = "Count" -> <<"c", "o", "u", "n", "t">>
      [] derivation = "CountD" -> <<"c", "o", "u", "n", "t", "_",
                                    "d", "i", "s", "t", "i", "n", "c", "t">>
      [] derivation = "Avg" -> <<"a", "v", "e", "r", "a", "g", "e">>

\* the column instances with an aggregation whose column has a base field
\* that is registered in a view
ClaimAggregated ==
    {ci \in DOMAIN nodes :
        /\ nodes[ci].cls = "ColumnInstance"
        /\ nodes[ci].derivation \in {"Sum", "Count", "CountD", "Avg"}
        /\ nodes[nodes[ci].parent_object]._looker_field # 0
        /\ objs[nodes[nodes[ci].parent_object]._looker_field].owner # 0}

\* C10: a column instance with derivation Sum, Count, CountD or Avg on a base
\* field registered in a view has a measure of type sum, count,
\* count_distinct or average; the measure is registered once in the view of
\* the base field, under the first candidate of
\* <parent identifier>_<aggregation> that was no identifier of the view, and
\* its SQL is ${<parent identifier>} ;;
C10_AggregationMeasure ==
    \A ci \in ClaimAggregated :
       LET parent == nodes[nodes[ci].parent_object]._looker_field
           view == objs[parent].owner
           f == nodes[ci]._lookml_derived_field
           reg == objs[view].fields
           at == {i \in DOMAIN reg : reg[i][2] = f}
       IN /\ f # 0
          /\ objs[f].cls = "ViewDerivedField"
          /\ objs[f].lookml_struct_type = "measure"
          /\ objs[f].type = ClaimMeasureType(nodes[ci].derivation)
          /\ Cardinality(at) = 1
          /\ \A i \in at :
                /\ reg[i][1] = objs[f].lookml_name
                /\ ClaimFirstAbsent(objs[parent].lookml_name \o <<"_">>
                                        \o ClaimAggregation(nodes[ci].derivation),
                                    {reg[j][1] : j \in 1..(i - 1)}, reg[i][1])
          /\ ViewDerivedField_sql(objs, f)
                = <<"$", "{">> \o objs[parent].lookml_name \o <<"}", " ", ";", ";">>

\* the sum of the base field amount is the measure amount_sum with SQL
\* ${amount} ;;
C10_Witness ==
    \E ci \in ClaimAggregated :
       LET f == nodes[ci]._lookml_derived_field IN
       /\ nodes[ci].derivation = "Sum"
       /\ f # 0
       /\ objs[objs[f].parent_base_field].lookml_name = <<"a", "m", "o", "u", "n", "t">>
       /\ objs[f].lookml_name = <<"a", "m", "o", "u", "n", "t", "_", "s", "u", "m">>
       /\ objs[f].type = "sum"
       /\ ViewDerivedField_sql(objs, f)
             = <<"$", "{", "a", "m", "o", "u", "n", "t", "}", " ", ";", ";">>

\* the label id_sum is taken by a base field: the sum of id is id_sum_1
C10_WitnessCollision ==
    \E ci \in ClaimAggregated :
       /\ nodes[ci]._lookml_derived_field # 0
       /\ objs[nodes[ci]._lookml_derived_field].lookml_name
             = <<"i", "d", "_", "s", "u", "m", "_", "1">>
(***************************************************************************)
(* The translation of a datasource with several relations: its metadata    *)
(* records, its object graph, a column instance of a worksheet, and then   *)
(* reads of the translator properties by the user of the parsed workbook.  *)
(* An exception in the parse leaves the setter of Workbook.raw_extract:    *)
(* nothing follows it.                                                     *)
(***************************************************************************)
TableRelation(parent_object, rel_name) ==
    [NBlank EXCEPT !.cls = "Relation", !.parent_object = parent_object,
                   !.rel_type = "table", !.rel_join = "inner", !.rel_name = rel_name,
                   !.rel_table = <<"[", "s", "]", ".", "[">> \o rel_name \o <<"]">>]

\* a = b between the columns id of the two sides
IdEqualsId ==
    [op |-> <<"=">>, index |-> 0,
     children_expressions |->
         <<[op |-> <<"i", "d">>, index |-> 0, children_expressions |-> <<>>],
           [op |-> <<"i", "d">>, index |-> 1, children_expressions |-> <<>>]>>]

\* the workbook with the datasource "ds" and a connection whose relation is
\* p_relation with the relations below it
GraphDocument(p_relation, below) ==
    <<[NBlank EXCEPT !.cls = "Datasource", !.name = <<"d", "s">>,
                     !.connection = TheConnection, !.parent_object = 3],
      [NBlank EXCEPT !.cls = "Connection", !.parent_object = TheDatasource, !.relation = 4],
      [NBlank EXCEPT !.cls = "Workbook"],
      [p_relation EXCEPT !.cls = "Relation", !.parent_object = TheConnection]>> \o below

\* a collection of the tables a, b and c; a collection of the table a and the
\* union u of the table b; the join j of the tables a and b; the table a; the
\* join j of the custom SQL q and the table b of the reference [d].[s].[b]
GraphDocuments ==
    {GraphDocument(TableRelation(TheConnection, <<"a">>), <<>>),
     GraphDocument([NBlank EXCEPT !.rel_type = "join", !.rel_join = "inner",
                                  !.rel_name = <<"j">>,
                                  !.children_relations = <<5, 6>>,
                                  !.join_expression = <<IdEqualsId>>],
                   <<[NBlank EXCEPT !.cls = "Relation", !.parent_object = 4,
                                    !.rel_type = "text", !.rel_join = "inner",
                                    !.rel_name = <<"q">>,
                                    !.rel_sql_text = <<"S", "E", "L", "E", "C", "T", " ", "1">>],
                     [TableRelation(4, <<"b">>) EXCEPT
                         !.rel_table = <<"[", "d", "]", ".", "[", "s", "]", ".", "[", "b", "]">>]>>),
     GraphDocument([NBlank EXCEPT !.rel_type = "collection", !.rel_join = "inner",
                                  !.children_relations = <<5, 6, 7>>],
                   <<TableRelation(4, <<"a">>), TableRelation(4, <<"b">>),
                     TableRelation(4, <<"c">>)>>),
     GraphDocument([NBlank EXCEPT !.rel_type = "collection", !.rel_join = "inner",
                                  !.children_relations = <<5, 6>>],
                   <<TableRelation(4, <<"a">>),
                     [NBlank EXCEPT !.cls = "Relation", !.parent_object = 4,
                                    !.rel_type = "union", !.rel_join = "inner",
                                    !.rel_name = <<"u">>, !.children_relations = <<7>>],
                     TableRelation(6, <<"b">>)>>),
     GraphDocument([NBlank EXCEPT !.rel_type = "join", !.rel_join = "left",
                                  !.rel_name = <<"j">>,
                                  !.children_relations = <<5, 6>>,
                                  !.join_expression = <<IdEqualsId>>],
                   <<TableRelation(4, <<"a">>), TableRelation(4, <<"b">>)>>)}

JoinStrings == {"inner", "left", "right", "full", "cross"}

\* the object-graph elements of a document: none; or an object for each
\* relation of the collection, or for the relation that is no collection,
\* with no relationship, with one between the first two objects, with one
\* more between the second and the third, or with one to an object that is
\* not there
GraphInputs(S) ==
    LET root == S[S[TheConnection].relation]
        rs == IF root.rel_type = "collection" THEN root.children_relations
              ELSE <<S[TheConnection].relation>>
        objects == [i \in DOMAIN rs |->
                       [id |-> S[rs[i]].rel_name, relation |-> RawRelation(S, rs[i])]]
        R(i, second, join, expression) ==
            [first |-> objects[i].id, second |-> second, join |-> join,
             expression |-> expression]
    IN {<<>>} \cup
       {<<[objects |-> objects, relationships |-> relationships]>> :
           relationships \in
               {<<>>, <<R(1, <<"z">>, "inner", <<>>)>>}
               \cup (IF Len(objects) < 3 THEN {}
                     ELSE {<<R(1, <<"z">>, "inner", <<>>), R(1, objects[2].id, "left", <<>>)>>,
                           <<R(1, objects[2].id, "left", <<>>), R(2, <<"z">>, "inner", <<>>)>>,
                           <<R(1, objects[2].id, "left", <<>>), R(2, <<"z">>, "inner", <<>>),
                             R(1, objects[3].id, "inner", <<>>)>>})
               \cup {<<R(1, objects[2].id, join, expression)>> :
                        join \in IF Len(objects) >= 2 THEN JoinStrings ELSE {},
                        expression \in {<<>>, <<IdEqualsId>>}}
               \cup {<<R(1, objects[2].id, join, expression),
                       R(2, objects[3].id, "inner", expression)>> :
                        join \in IF Len(objects) >= 3 THEN JoinStrings ELSE {},
                        expression \in {<<>>, <<IdEqualsId>>}}}

\* the datasource is in Workbook.datasources: its parse is over
GraphParsed == nodes[nodes[TheDatasource].parent_object].datasources # <<>>

GraphInit ==
    /\ objs = <<LookMLProject>>
    /\ exc = None
    /\ NoGen
    /\ nodes \in GraphDocuments
    /\ ret = NoRead

\* a metadata record of the column id whose parent-name is the name of a
\* relation that has no record yet
GraphExtractMetadataColumn ==
    /\ exc = None
    /\ ~GraphParsed
    /\ Cardinality(NodesOfClass(nodes, "MetadataColumn")) < MaxCols
    /\ \E rel \in NodesOfClass(nodes, "Relation") :
          /\ nodes[rel].rel_name # <<>>
          /\ \A mc \in NodesOfClass(nodes, "MetadataColumn") :
                nodes[mc].parent_name # <<"[">> \o nodes[rel].rel_name \o <<"]">>
          /\ ApplyT(extract_metadata_column(
                        nodes, objs, TheConnection,
                        MetadataRecord(nodes[rel].rel_name, <<"i", "d">>, "integer")),
                    NoRead)

GraphExtractObjectGraph ==
    /\ exc = None
    /\ ~GraphParsed
    /\ \E object_data \in GraphInputs(nodes) :
          ApplyT(extract_object_graph(nodes, objs, TheDatasource, object_data), NoRead)

\* a column instance of the column id in a worksheet of the workbook
GraphExtractColumnInstance ==
    /\ exc = None
    /\ GraphParsed
    /\ ret = NoRead
    /\ Cardinality(NodesOfClass(nodes, "ColumnInstance")) < MaxInstances
    /\ \E derivation \in {"Sum", "Year"} :
          ApplyT(extract_column_instance(
                     nodes, objs, TheDatasource,
                     [column |-> <<"[", "i", "d", "]">>, name |-> <<"[", "c", "i", "]">>,
                      derivation |-> derivation, type |-> None]),
                 NoRead)

\* the user may read when the parse has ended without exception
GraphMayRead ==
    /\ GraphParsed
    /\ exc = None \/ ret # NoRead
    /\ ret.reads < MaxReads

\* the read of property on node self with outcome r
Read(property, self, r) ==
    ApplyT(r, [property |-> property, node |-> self, val |-> r.val, reads |-> ret.reads + 1])

ReadRelationView ==
    /\ GraphMayRead
    /\ \E self \in NodesOfClass(nodes, "Relation") :
          Read("Relation.lookml_view", self, Relation_lookml_view(nodes, objs, self))

ReadRelationExplore ==
    /\ GraphMayRead
    /\ \E self \in NodesOfClass(nodes, "Relation") :
          Read("Relation.lookml_explore", self, Relation_lookml_explore(nodes, objs, self))

ReadLogicalTableExplore ==
    /\ GraphMayRead
    /\ \E self \in NodesOfClass(nodes, "LogicalTable") :
          Read("LogicalTable.lookml_explore", self,
               LogicalTable_lookml_explore(nodes, objs, self))

ReadObjectGraphExplore ==
    /\ GraphMayRead
    /\ \E self \in NodesOfClass(nodes, "ObjectGraph") :
          Read("ObjectGraph.lookml_explore", self, gen_lookml_explore(nodes, objs, self))

ReadLookerField ==
    /\ GraphMayRead
    /\ \E self \in NodesOfClass(nodes, "MetadataColumn") :
          Read("MetadataColumn.looker_field", self,
               MetadataColumn_looker_field(nodes, objs, self))

ReadDerivedField ==
    /\ GraphMayRead
    /\ \E self \in NodesOfClass(nodes, "ColumnInstance") :
          Read("ColumnInstance.lookml_derived_field", self,
               ColumnInstance_lookml_derived_field(nodes, objs, self))

GraphNext ==
    \/ GraphExtractMetadataColumn
    \/ GraphExtractObjectGraph
    \/ GraphExtractColumnInstance
    \/ ReadRelationView
    \/ ReadRelationExplore
    \/ ReadLogicalTableExplore
    \/ ReadObjectGraphExplore
    \/ ReadLookerField
    \/ ReadDerivedField

SpecGraph == GraphInit /\ [][GraphNext]_vars
(***************************************************************************)
(* Claims about the translator properties, the join types and the explore  *)
(* of the object graph, checked under SpecGraph.                           *)
(***************************************************************************)
\* the step reads the property that the step before it read, on the same node
ClaimRepeatedRead ==
    /\ ret.property # None
    /\ ret'.reads = ret.reads + 1
    /\ ret'.property = ret.property
    /\ ret'.node = ret.node

\* C6: a read of Relation.lookml_view, Relation.lookml_explore,
\* LogicalTable.lookml_explore, ObjectGraph.lookml_explore,
\* MetadataColumn.looker_field or ColumnInstance.lookml_derived_field that
\* repeats the read before it returns what that read returned, and leaves
\* every registry as it was
C6_MemoizedReads ==
    [][ClaimRepeatedRead =>
          /\ ret'.val = ret.val
          /\ \A self \in DOMAIN objs', reg \in Registries :
                objs'[self][reg] = IF self \in DOMAIN objs THEN objs[self][reg] ELSE <<>>]_vars

\* the join levels of explore e, innermost first
ClaimLevels(e) ==
    LET es == yield_child_explores(objs, e)
        at == {i \in DOMAIN es : objs[es[i]].second_object # 0}
        nth(k) == CHOOSE i \in at : Cardinality({j \in at : j <= i}) = k
    IN [k \in 1..Cardinality(at) |-> es[nth(k)]]

ClaimJoinType(join_str) ==
    CASE join_str = "inner" -> "inner"
      [] join_str = "left" -> "left_outer"
      [] join_str = "right" -> "full_outer"
      [] join_str = "full" -> "full_outer"

\* C7: where the explore of an object graph has a join level for each of its
\* relationships, every relationship has one of the join strings inner, left,
\* right and full, and its level the join type inner, left_outer, full_outer
\* and full_outer of that string: no level is made for another string; and
\* the explore read from a join relation of two tables with one of the four
\* strings has the join type of that string
C7_JoinTypeMapping ==
    /\ \A g \in NodesOfClass(nodes, "ObjectGraph") :
          LET rs == nodes[g].relationships
              e == nodes[g]._lookml_explore
          IN (e # 0 /\ rs # <<>> /\ Len(ClaimLevels(e)) = Len(rs)) =>
                \A i \in DOMAIN rs :
                   /\ nodes[rs[i]].rel_join \in {"inner", "left", "right", "full"}
                   /\ objs[ClaimLevels(e)[i]].join_type = ClaimJoinType(nodes[rs[i]].rel_join)
    /\ (/\ ret.property = "Relation.lookml_explore"
        /\ nodes[ret.node].rel_type = "join"
        /\ nodes[ret.node].rel_join \in {"inner", "left", "right", "full"}
        /\ Len(nodes[ret.node].children_relations) = 2
        /\ \A i \in 1..2 : nodes[nodes[ret.node].children_relations[i]].rel_type = "table")
          => /\ ret.val # 0
             /\ objs[ret.val].join_type = ClaimJoinType(nodes[ret.node].rel_join)

\* the relation of the logical table with id in object graph g, 0 if there is
\* none
ClaimRelationOf(g, id) ==
    IF DictGet(nodes[g].logical_tables_dict, id) = 0 THEN 0
    ELSE nodes[DictGet(nodes[g].logical_tables_dict, id)].relation

\* the number of conditions of the expression of relationship r
ClaimConditions(r) ==
    IF nodes[r].join_expression = <<>> THEN 0
    ELSE IF nodes[r].join_expression[1].op = <<"A", "N", "D">>
    THEN Len(nodes[r].join_expression[1].children_expressions)
    ELSE 1

\* the predicates of relationship r whose columns resolve, by base fields
ClaimPredicates(r) ==
    IF nodes[r].join_expression = <<>> THEN <<>>
    ELSE LET joins == yield_joins(nodes, nodes[r].join_expression[1], r)
         IN [i \in DOMAIN joins |->
                <<nodes[joins[i][1]]._looker_field, joins[i][2],
                  nodes[joins[i][3]]._looker_field>>]

\* the logical tables of every relationship of g are there with a table for
\* relation, and the columns of all its predicates are found
ClaimAllResolve(g) ==
    \A i \in DOMAIN nodes[g].relationships :
       LET r == nodes[g].relationships[i] IN
       /\ ClaimRelationOf(g, nodes[r].first_endpoint_id) # 0
       /\ ClaimRelationOf(g, nodes[r].second_endpoint_id) # 0
       /\ nodes[ClaimRelationOf(g, nodes[r].first_endpoint_id)].rel_type = "table"
       /\ nodes[ClaimRelationOf(g, nodes[r].second_endpoint_id)].rel_type = "table"
       /\ Len(ClaimPredicates(r)) = ClaimConditions(r)

\* C9: an object graph with k >= 1 relationships whose logical tables and
\* predicate columns all resolve has an explore that is a chain of k join
\* levels: the first starts from the explore of the first logical table of
\* the first relationship, every next from the level before it; the i-th
\* pairs it with the view of the second logical table of the i-th
\* relationship under that relationship's predicates; and the text of the
\* explore has k join blocks, of these views in this order
C9_ChainedExplore ==
    \A g \in NodesOfClass(nodes, "ObjectGraph") :
       LET rs == nodes[g].relationships
           e == nodes[g]._lookml_explore
       IN (rs # <<>> /\ ClaimAllResolve(g)) =>
             /\ e # 0
             /\ LET levels == ClaimLevels(e)
                    view(i) == nodes[ClaimRelationOf(g, nodes[rs[i]].second_endpoint_id)]._lookml_view
                IN /\ Len(levels) = Len(rs)
                   /\ levels[Len(rs)] = e
                   /\ objs[levels[1]].first_object =
                         nodes[ClaimRelationOf(g, nodes[rs[1]].first_endpoint_id)]._lookml_explore
                   /\ \A i \in DOMAIN rs :
                         /\ i > 1 => objs[levels[i]].first_object = levels[i - 1]
                         /\ objs[levels[i]].second_object = view(i)
                         /\ objs[levels[i]].join_sql_on = <<ClaimPredicates(rs[i])>>
                   /\ lookml_str(objs, e) = [exc |-> None, joins |-> [i \in DOMAIN rs |-> view(i)]]
(***************************************************************************)
(* Claims about derived fields and their parents, checked under SpecGraph. *)
(***************************************************************************)
\* the derived fields that a column instance holds or a view has registered
ClaimDerivedFields ==
    ({nodes[ci]._lookml_derived_field : ci \in NodesOfClass(nodes, "ColumnInstance")}
        \cup {f \in DOMAIN objs :
                 /\ objs[f].cls = "ViewDerivedField"
                 /\ \E v \in OfClass(objs, "LookMLView") : f \in Values(objs[v].fields)})
        \ {0}

\* base field p is registered in a view that is registered in a model
ClaimInMaterializedView(p) ==
    /\ p # 0
    /\ objs[p].cls = "ViewBaseField"
    /\ objs[p].owner # 0
    /\ p \in Values(objs[objs[p].owner].fields)
    /\ objs[objs[p].owner].owner # 0
    /\ objs[p].owner \in Values(objs[objs[objs[p].owner].owner].lookml_views)

\* C11: every derived field that a column instance holds or a view has
\* registered has a parent base field that is registered in a view of a
\* model, and a derived field registered in a view is registered in the view
\* of its parent and in no other
C11_DerivedFieldParent ==
    \A f \in ClaimDerivedFields :
       /\ ClaimInMaterializedView(objs[f].parent_base_field)
       /\ \A v \in OfClass(objs, "LookMLView") :
             f \in Values(objs[v].fields) => v = objs[objs[f].parent_base_field].owner

\* the same on the columns of table relations: the parent of every derived
\* field of a column instance of a column of a table is registered
C11_DerivedFieldParentOfTable ==
    \A ci \in NodesOfClass(nodes, "ColumnInstance") :
       (/\ nodes[ci]._lookml_derived_field # 0
        /\ nodes[nodes[nodes[ci].parent_object].relation].rel_type = "table")
          => ClaimInMaterializedView(objs[nodes[ci]._lookml_derived_field].parent_base_field)
(***************************************************************************)
(* The worksheets (Worksheet and WorksheetPane of Tableau_objects.py).  A  *)
(* worksheet element is the record of its name, its datasource             *)
(* dependencies, the texts of its rows and cols and its panes; it has no   *)
(* title.                                                                  *)
(***************************************************************************)
RECURSIVE FindColumnKeys(_)
\* the matches of re.finditer(r'\[[^[]+]\.\[[^[]+]', axis_data): a "[", one
\* or more characters other than "[" up to "].", the next "[", and the
\* longest run of characters other than "[" that a "]" ends
FindColumnKeys(s) ==
    IF s = <<>> THEN <<>>
    ELSE IF Head(s) # "[" THEN FindColumnKeys(Tail(s))
    ELSE LET rest == Tail(s)
             run1 == CHOOSE k \in 0..Len(rest) :
                        /\ \A i \in 1..k : rest[i] # "["
                        /\ k < Len(rest) => rest[k + 1] = "["
             rest2 == SubSeq(rest, run1 + 2, Len(rest))
             run2 == CHOOSE k \in 0..Len(rest2) :
                        /\ \A i \in 1..k : rest2[i] # "["
                        /\ k < Len(rest2) => rest2[k + 1] = "["
             closes == {i \in 2..run2 : rest2[i] = "]"}
             close == CHOOSE i \in closes : \A j \in closes : j <= i
         IN IF /\ run1 >= 3
               /\ run1 < Len(rest)
               /\ rest[run1 - 1] = "]"
               /\ rest[run1] = "."
               /\ closes # {}
            THEN <<SubSeq(s, 1, run1 + 2 + close)>>
                     \o FindColumnKeys(SubSeq(rest2, close + 1, Len(rest2)))
            ELSE FindColumnKeys(rest)

\* d.get(k, default) on a dict whose values are not references
GetOr(d, k, default) ==
    IF \E i \in DOMAIN d : d[i][1] = k
    THEN d[CHOOSE i \in DOMAIN d : d[i][1] = k][2]
    ELSE default

\* the column instances of the keys that are in used_column_instances, in the
\* order of the keys
UsedOf(S, self, keys) ==
    LET used == SelectSeq(keys, LAMBDA k : DictGet(S[self].used_column_instances, k) # 0)
    IN [i \in DOMAIN used |-> DictGet(S[self].used_column_instances, used[i])]

\* Worksheet._set_axis_columns: what it appends to the target list
_set_axis_columns(S, self, axis_data) == UsedOf(S, self, FindColumnKeys(axis_data))

RECURSIVE extract_column_instances_of(_, _, _, _, _, _)
\* the loop over the column-instance elements of one dependency in
\* Worksheet.extract_column_instances
extract_column_instances_of(S, O, self, act_ds, column_roles, instances) ==
    IF instances = <<>> THEN Return(S, O, 0)
    ELSE Bind(extract_column_instance(S, O, act_ds, Head(instances)), LAMBDA r :
         IF r.exc # None THEN r
         ELSE IF r.val = 0
         THEN extract_column_instances_of(r.nodes, r.objs, self, act_ds, column_roles,
                                          Tail(instances))
         ELSE extract_column_instances_of(
                  [r.nodes EXCEPT
                      ![r.val].role = GetOr(column_roles, Head(instances).column, None),
                      ![self].used_column_instances =
                          DictPut(@, Head(instances).column, r.val)],
                  r.objs, self, act_ds, column_roles, Tail(instances)))

RECURSIVE extract_column_instances(_, _, _, _)
\* Worksheet.extract_column_instances, from the dependencies on
\* (used_column_instances is empty before the first)
extract_column_instances(S, O, self, dependencies) ==
    IF dependencies = <<>> THEN Return(S, O, 0)
    ELSE IF DictGet(S[S[self].parent_object].datasources, Head(dependencies).datasource) = 0
    THEN extract_column_instances(S, O, self, Tail(dependencies))
    ELSE Bind(extract_column_instances_of(
                  S, O, self,
                  DictGet(S[S[self].parent_object].datasources, Head(dependencies).datasource),
                  Head(dependencies).column, Head(dependencies).column_instance),
              LAMBDA r :
             IF r.exc # None THEN r
             ELSE extract_column_instances(r.nodes, r.objs, self, Tail(dependencies)))

RECURSIVE extract_pane(_, _, _)
\* Worksheet.extract_pane with the setter of WorksheetPane.raw_extract, from
\* the panes on; encodings is the dict of the column keys of every encoding
\* type
extract_pane(S, self, panes_data) ==
    IF panes_data = <<>> THEN S
    ELSE LET new_pane == Len(S) + 1
             encodings == Head(panes_data).encodings
         IN extract_pane(
                [Append(S, [NBlank EXCEPT !.cls = "WorksheetPane",
                                          !.parent_object = self,
                                          !.mark_class = Head(panes_data).mark_class,
                                          !.encodings = encodings])
                    EXCEPT ![self].panes = Append(@, new_pane),
                           ![self].pane_texts =
                               @ \o UsedOf(S, self, GetOr(encodings, "text", <<>>)),
                           ![self].pane_wedge_sizes =
                               @ \o UsedOf(S, self, GetOr(encodings, "wedge-size", <<>>)),
                           ![self].pane_colors =
                               @ \o UsedOf(S, self, GetOr(encodings, "color", <<>>))],
                self, Tail(panes_data))

\* dashboard_type_mapping with Bar as a bar chart
dashboard_type_mapping_BarIsBar(mark_class) ==
    CASE mark_class \in {"Text", "Square"} -> "table"
      [] mark_class = "Bar" -> "looker_bar"
      [] mark_class = "Line" -> "looker_line"
      [] mark_class = "Area" -> "looker_area"
      [] mark_class = "Pie" -> "looker_pie"
      [] mark_class = "Shape" -> "looker_scatter"
      [] OTHER -> None

\* dashboard_type_mapping.get(mark_class) in Worksheet.lookml_dashboardelement
dashboard_type_mapping(mark_class) ==
    CASE mark_class \in {"Text", "Square"} -> "table"
      [] mark_class = "Bar" -> "looker_column"
      [] mark_class = "Line" -> "looker_line"
      [] mark_class = "Area" -> "looker_area"
      [] mark_class = "Pie" -> "looker_pie"
      [] mark_class = "Shape" -> "looker_scatter"
      [] OTHER -> None

\* the type that Worksheet.lookml_dashboardelement infers for the mark class
\* Automatic from the roles on the axes
automatic_type(S, self) ==
    LET has_measure_in_rows == \E i \in DOMAIN S[self].rows : S[S[self].rows[i]].role = "measure"
        has_measure_in_cols == \E i \in DOMAIN S[self].cols : S[S[self].cols[i]].role = "measure"
        has_dim_in_rows == \E i \in DOMAIN S[self].rows : S[S[self].rows[i]].role = "dimension"
        has_dim_in_cols == \E i \in DOMAIN S[self].cols : S[S[self].cols[i]].role = "dimension"
    IN IF has_measure_in_rows /\ has_measure_in_cols THEN "looker_scatter"
       ELSE IF has_dim_in_rows /\ has_measure_in_cols THEN "looker_line"
       ELSE IF has_dim_in_cols /\ has_measure_in_rows THEN "looker_line"
       ELSE IF has_measure_in_cols THEN "looker_bar"
       ELSE IF has_measure_in_rows THEN "looker_column"
       ELSE IF /\ S[self].rows = <<>>
               /\ S[self].cols = <<>>
               /\ Len(S[self].pane_texts) = 1
               /\ S[S[self].pane_texts[1]].role = "measure"
       THEN "single_value"
       ELSE "table"

\* the type that Worksheet.lookml_dashboardelement assigns to the element
inferred_type(S, self) ==
    LET mark_class == IF S[self].panes # <<>> THEN S[S[self].panes[1]].mark_class
                      ELSE "Automatic"
        type == IF mark_class = "Automatic" THEN automatic_type(S, self)
                ELSE dashboard_type_mapping(mark_class)
    IN IF type = None THEN "table" ELSE type

\* the element under its original name, whatever the keys are
add_dashboard_elements_ByOrigName(O, self, p_dashboard_element) ==
    IF p_dashboard_element \in Values(O[self].lookml_dashboard_elements) THEN Done(O)
    ELSE Done([O EXCEPT ![self].lookml_dashboard_elements =
                            Append(@, <<O[p_dashboard_element].orig_name, p_dashboard_element>>)])

\* Dashboard.add_dashboard_elements
add_dashboard_elements(O, self, p_dashboard_element) ==
    IF p_dashboard_element \in Values(O[self].lookml_dashboard_elements) THEN Done(O)
    ELSE Bind(ForFirstFree(O[p_dashboard_element].orig_name,
                           O[self].lookml_dashboard_elements),
              LAMBDA r :
             IF r.exc # None THEN Raised(O, r.exc)
             ELSE Done([O EXCEPT ![self].lookml_dashboard_elements =
                                     Append(@, <<r.name, p_dashboard_element>>)]))

\* "Add to a test dashboard" in Worksheet.lookml_dashboardelement: the first
\* dashboard of the project, made when there is none, gets the element
add_to_test_dashboard(S, O, self, p_dashboardelement) ==
    IF O[TheProject].lookml_dashboards = <<>>
    THEN Bind(add_lookml_dashboard(
                  Append(O, Dashboard(<<"t", "e", "s", "t", "_", "d", "a", "s", "h", "b",
                                        "o", "a", "r", "d", "_">>
                                          \o S[S[self].parent_object].name)),
                  TheProject, Len(O) + 1),
              LAMBDA dr :
             IF dr.exc # None THEN dr
             ELSE add_dashboard_elements(dr.objs, Len(O) + 1, p_dashboardelement))
    ELSE add_dashboard_elements(O, O[TheProject].lookml_dashboards[1][2], p_dashboardelement)

\* the derived fields of the column instances cis whose struct type is in
\* types; a column instance of a worksheet has its derived field since the
\* setter of its raw_extract
derived_fields(S, O, cis, types) ==
    LET with == SelectSeq(cis, LAMBDA ci :
                    /\ ci # 0
                    /\ S[ci]._lookml_derived_field # 0
                    /\ O[S[ci]._lookml_derived_field].lookml_struct_type \in types)
    IN [i \in DOMAIN with |-> S[with[i]]._lookml_derived_field]

\* chain(self.rows, self.cols, self.pane_texts, self.pane_wedge_sizes,
\* self.pane_colors)
chain(S, self) ==
    S[self].rows \o S[self].cols \o S[self].pane_texts \o S[self].pane_wedge_sizes
        \o S[self].pane_colors

\* the pivots that Worksheet.lookml_dashboardelement assigns to an element of
\* this type
pivots_of(S, O, self, type) ==
    LET StructTypes == {None, "dimension", "dimension_group", "measure"}
        measure_in(cis) == \E i \in DOMAIN cis : S[cis[i]].role = "measure"
    IN IF type \in {"looker_column", "looker_bar", "table"}
       THEN IF S[self].cols # <<>> /\ measure_in(S[self].rows)
            THEN derived_fields(S, O, S[self].cols, {"dimension"})
            ELSE IF S[self].rows # <<>> /\ measure_in(S[self].cols)
            THEN derived_fields(S, O, S[self].rows, {"dimension"})
            ELSE IF type = "table" THEN derived_fields(S, O, S[self].cols, StructTypes)
            ELSE <<>>
       ELSE IF type = "looker_line"
       THEN derived_fields(S, O, S[self].pane_colors, StructTypes)
       ELSE derived_fields(S, O, S[self].cols, StructTypes)

\* "Link dashboard element to its model and explore" in
\* Worksheet.lookml_dashboardelement: the model and the explore of the object
\* graph of the datasource of the first column instance that has them; an
\* AttributeError is caught
link_model_and_explore(S, O, self, p_dashboardelement) ==
    LET valid == SelectSeq(chain(S, self), LAMBDA ci :
                     /\ ci # 0
                     /\ S[ci].parent_object # 0
                     /\ datasource(S, S[S[ci].parent_object].parent_object) # 0
                     /\ S[datasource(S, S[S[ci].parent_object].parent_object)].object_graph # 0)
        ds == datasource(S, S[S[valid[1]].parent_object].parent_object)
    IN IF valid = <<>> THEN Return(S, O, p_dashboardelement)
       ELSE Bind(Datasource_lookml_model(S, O, ds), LAMBDA mr :
            IF mr.exc = "AttributeError" THEN Return(mr.nodes, mr.objs, p_dashboardelement)
            ELSE IF mr.exc # None THEN mr
            ELSE Bind(gen_lookml_explore(
                          mr.nodes,
                          [mr.objs EXCEPT ![p_dashboardelement].lookml_model = mr.val],
                          S[ds].object_graph),
                      LAMBDA er :
                 IF er.exc = "AttributeError"
                 THEN Return(er.nodes, er.objs, p_dashboardelement)
                 ELSE IF er.exc # None THEN er
                 ELSE Return(er.nodes,
                             [er.objs EXCEPT ![p_dashboardelement].lookml_explore = er.val],
                             p_dashboardelement)))

\* Worksheet.lookml_dashboardelement
lookml_dashboardelement(S, O, self) ==
    IF S[self]._lookml_dashboardelement # 0
    THEN Return(S, O, S[self]._lookml_dashboardelement)
    ELSE LET new_dashboardelement == Len(O) + 1
             type == inferred_type(S, self)
         IN Bind(add_lookml_dashboardelement(
                     Append(O, [DashboardElement(S[self].name) EXCEPT !.type = type]),
                     TheProject, new_dashboardelement),
                 LAMBDA ar :
            IF ar.exc # None THEN Throw(S, ar.objs, ar.exc)
            ELSE Bind(add_to_test_dashboard(S, ar.objs, self, new_dashboardelement),
                      LAMBDA tr :
                 IF tr.exc # None
                 THEN Throw([S EXCEPT ![self]._lookml_dashboardelement = new_dashboardelement],
                            tr.objs, tr.exc)
                 ELSE link_model_and_explore(
                          [S EXCEPT ![self]._lookml_dashboardelement = new_dashboardelement],
                          [tr.objs EXCEPT
                              ![new_dashboardelement].fields =
                                  derived_fields(S, tr.objs, chain(S, self),
                                                 {"dimension", "measure", "dimension_group"}),
                              ![new_dashboardelement].pivots =
                                  pivots_of(S, tr.objs, self, type)],
                          self, new_dashboardelement)))

\* one round of the loop of Workbook.extract_worksheets: a new Worksheet,
\* the setter of its raw_extract, which ends reading lookml_dashboardelement,
\* and the worksheet under its name in Workbook.worksheets
extract_worksheet(S, O, self, ws_item) ==
    LET new_worksheet == Len(S) + 1 IN
    Bind(extract_column_instances(
             Append(S, [NBlank EXCEPT !.cls = "Worksheet", !.parent_object = self,
                                      !.name = ws_item.name]),
             O, new_worksheet, ws_item.dependencies),
         LAMBDA cr :
        IF cr.exc # None THEN cr
        ELSE Bind(lookml_dashboardelement(
                      extract_pane(
                          [cr.nodes EXCEPT
                              ![new_worksheet].rows =
                                  _set_axis_columns(cr.nodes, new_worksheet, ws_item.rows),
                              ![new_worksheet].cols =
                                  _set_axis_columns(cr.nodes, new_worksheet, ws_item.cols)],
                          new_worksheet, ws_item.panes),
                      cr.objs, new_worksheet),
                  LAMBDA er :
             IF er.exc # None \/ ws_item.name = <<>> THEN er
             ELSE Return([er.nodes EXCEPT ![self].worksheets =
                                              DictPut(@, ws_item.name, new_worksheet)],
                         er.objs, 0)))
(***************************************************************************)
(* The parse of the worksheets of a workbook whose datasource "ds" is the  *)
(* table o with the columns r, s and d and an object graph of one logical  *)
(* table.                                                                  *)
(***************************************************************************)
MaxSheets == 2

\* the state after the parse of the datasource
SheetDocument ==
    LET Record(remote_name, local_type) == MetadataRecord(<<"o">>, remote_name, local_type)
        S0 == [GraphDocument(TableRelation(TheConnection, <<"o">>), <<>>)
                  EXCEPT ![3].name = <<"w", "b">>]    \* tableau_workbook_name
    IN Bind(extract_metadata_column(S0, <<LookMLProject>>, TheConnection,
                                    Record(<<"r">>, "string")),
            LAMBDA r1 :
       Bind(extract_metadata_column(r1.nodes, r1.objs, TheConnection, Record(<<"s">>, "real")),
            LAMBDA r2 :
       Bind(extract_metadata_column(r2.nodes, r2.objs, TheConnection, Record(<<"d">>, "date")),
            LAMBDA r3 :
       extract_object_graph(
           r3.nodes, r3.objs, TheDatasource,
           <<[objects |-> <<[id |-> <<"o">>, relation |-> RawRelation(S0, 4)]>>,
              relationships |-> <<>>]>>))))

\* the key of the column instance of column c in used_column_instances
ColumnKey(c) == <<"[", "d", "s", "]", ".", "[", c, "]">>

\* a column-instance element on column c and the role of the column element
\* of c
Usage(c, derivation, type, role) ==
    [column |-> ColumnKey(c),
     name |-> <<"[", IF derivation = None THEN "none" ELSE derivation, ":", c, ":", type, "]">>,
     derivation |-> derivation, type |-> type, role |-> role]

\* the usages of r, s and d in a worksheet: the dimensions r (nominal) and
\* the year of d (ordinal) with the sum of s; or the dimension r (ordinal)
\* with the sum of s and the count of d
SheetUsages ==
    {<<Usage("r", None, "nominal", "dimension"),
       Usage("s", "Sum", "quantitative", "measure"),
       Usage("d", "Year", "ordinal", "dimension")>>,
     <<Usage("r", None, "ordinal", "dimension"),
       Usage("s", "Sum", "quantitative", "measure"),
       Usage("d", "Count", "quantitative", "measure")>>}

\* the text of an axis with the column instances of cs
AxisText(cs) ==
    IF cs = <<>> THEN <<>>
    ELSE IF Len(cs) = 1 THEN ColumnKey(cs[1])
    ELSE <<"(">> \o ColumnKey(cs[1]) \o <<" ", "/", " ">> \o ColumnKey(cs[2]) \o <<")">>

\* the encodings of a pane with the columns of texts as text, of sizes as
\* wedge-size and of colors as color
Encodings(texts, sizes, colors) ==
    LET Enc(type, cs) == IF cs = <<>> THEN <<>>
                         ELSE <<(<<type, [i \in DOMAIN cs |-> ColumnKey(cs[i])]>>)>>
    IN Enc("text", texts) \o Enc("wedge-size", sizes) \o Enc("color", colors)

\* the worksheet element w
SheetItem(usages, rows, cols, panes) ==
    [name |-> <<"w">>,
     dependencies |->
         <<[datasource |-> <<"d", "s">>,
            column |-> [i \in DOMAIN usages |-> <<usages[i].column, usages[i].role>>],
            column_instance |-> usages]>>,
     rows |-> AxisText(rows), cols |-> AxisText(cols), panes |-> panes]

MarkClasses ==
    {"Text", "Square", "Bar", "Line", "Area", "Pie", "Shape", "GanttBar", "Multipolygon"}

\* worksheets of mark class Automatic with every content of a small set, and
\* worksheets of the other mark classes, and without pane, with three contents
SheetInputs ==
    {SheetItem(usages, rows, cols,
               <<[mark_class |-> "Automatic", encodings |-> Encodings(texts, sc[1], sc[2])]>>) :
        usages \in SheetUsages,
        rows \in {<<>>, <<"r">>, <<"s">>, <<"r", "d">>},
        cols \in {<<>>, <<"s">>, <<"r">>, <<"d">>},
        texts \in {<<>>, <<"s">>, <<"r">>},
        sc \in {<<(<<>>), (<<>>)>>, <<(<<"s">>), (<<"r">>)>>}}
    \cup
    {SheetItem(usages, c[1], c[2],
               <<[mark_class |-> mark_class, encodings |-> Encodings(c[3], <<>>, c[3])]>>) :
        usages \in SheetUsages,
        mark_class \in MarkClasses,
        c \in {<<(<<>>), (<<>>), (<<>>)>>,
               <<(<<"r">>), (<<"s">>), (<<"s">>)>>,
               <<(<<"s">>), (<<"s">>), (<<"r">>)>>}}
    \cup
    {SheetItem(usages, rows, <<"s">>, <<>>) :
        usages \in SheetUsages, rows \in {<<>>, <<"r">>}}

SheetInit ==
    /\ objs = SheetDocument.objs
    /\ exc = SheetDocument.exc
    /\ NoGen
    /\ nodes = SheetDocument.nodes
    /\ ret = NoRead

ExtractWorksheet ==
    /\ exc = None
    /\ Cardinality(NodesOfClass(nodes, "Worksheet")) < MaxSheets
    /\ \E ws_item \in SheetInputs :
          ApplyT(extract_worksheet(nodes, objs, nodes[TheDatasource].parent_object, ws_item),
                 NoRead)

SheetNext == ExtractWorksheet

SpecSheet == SheetInit /\ [][SheetNext]_vars
(***************************************************************************)
(* Claims about the dashboard elements of the worksheets, checked under    *)
(* SpecSheet.                                                              *)
(***************************************************************************)
\* the mark class of worksheet w: that of its first pane, Automatic for a
\* worksheet without pane
ClaimMark(w) ==
    IF nodes[w].panes = <<>> THEN "Automatic" ELSE nodes[nodes[w].panes[1]].mark_class

ClaimMeasureIn(cis) == \E i \in DOMAIN cis : nodes[cis[i]].role = "measure"

\* cis is not empty and each of its fields is a dimension of type ordinal or
\* quantitative
ClaimAllOrdinalDimensions(cis) ==
    /\ cis # <<>>
    /\ \A i \in DOMAIN cis :
          /\ nodes[cis[i]].role = "dimension"
          /\ nodes[cis[i]].type \in {"ordinal", "quantitative"}

\* the types of the first rule of (1)..(7) that matches worksheet w; the
\* COLUMN (bar) of rule (4) is the column or the bar chart
ClaimAutomaticTypes(w) ==
    LET rows == nodes[w].rows
        cols == nodes[w].cols
        texts == nodes[w].pane_texts
    IN IF ClaimMeasureIn(rows) /\ ClaimMeasureIn(cols) THEN {"looker_scatter"}
       ELSE IF ClaimAllOrdinalDimensions(rows) /\ ClaimMeasureIn(cols) THEN {"looker_line"}
       ELSE IF ClaimAllOrdinalDimensions(cols) /\ ClaimMeasureIn(rows) THEN {"looker_line"}
       ELSE IF ClaimMeasureIn(cols) THEN {"looker_column", "looker_bar"}
       ELSE IF ClaimMeasureIn(rows) THEN {"looker_column"}
       ELSE IF rows = <<>> /\ cols = <<>> /\ Len(texts) = 1 /\ ClaimMeasureIn(texts)
       THEN {"single_value"}
       ELSE {"table"}

\* C12: the element of a worksheet of mark class Automatic has the type of
\* the first rule that matches: (1) a measure in rows and in columns: scatter;
\* (2) every row field an ordinal or quantitative dimension and a measure in
\* columns: line; (3) every column field an ordinal or quantitative dimension
\* and a measure in rows: line; (4) a measure in columns: column (bar); (5) a
\* measure in rows: column; (6) no rows, no columns and one pane text that is
\* a measure: single value; (7) table
C12_AutomaticClassification ==
    \A w \in NodesOfClass(nodes, "Worksheet") :
       ClaimMark(w) = "Automatic" =>
          /\ nodes[w]._lookml_dashboardelement # 0
          /\ objs[nodes[w]._lookml_dashboardelement].type \in ClaimAutomaticTypes(w)

\* mark Automatic, rows = [an ordinal dimension], columns = [a measure]: line
C12_AutomaticLineExample ==
    \A w \in NodesOfClass(nodes, "Worksheet") :
       (/\ ClaimMark(w) = "Automatic"
        /\ Len(nodes[w].rows) = 1
        /\ ClaimAllOrdinalDimensions(nodes[w].rows)
        /\ Len(nodes[w].cols) = 1
        /\ ClaimMeasureIn(nodes[w].cols))
          => /\ nodes[w]._lookml_dashboardelement # 0
             /\ objs[nodes[w]._lookml_dashboardelement].type = "looker_line"

\* the fixed table of the mark classes
ClaimFixedType(mark_class) ==
    CASE mark_class \in {"Text", "Square"} -> "table"
      [] mark_class = "Bar" -> "looker_column"
      [] mark_class = "Line" -> "looker_line"
      [] mark_class = "Area" -> "looker_area"
      [] mark_class = "Pie" -> "looker_pie"
      [] mark_class = "Shape" -> "looker_scatter"

ClaimFixedMarks == {"Text", "Square", "Bar", "Line", "Area", "Pie", "Shape"}

\* C13: the element of a worksheet whose mark class is Text, Square, Bar,
\* Line, Area, Pie or Shape has the type table, table, column, line, area,
\* pie or scatter of that mark class, whatever its rows, columns and pane
\* fields are
C13_FixedMarkClassification ==
    \A w \in NodesOfClass(nodes, "Worksheet") :
       ClaimMark(w) \in ClaimFixedMarks =>
          /\ nodes[w]._lookml_dashboardelement # 0
          /\ objs[nodes[w]._lookml_dashboardelement].type = ClaimFixedType(ClaimMark(w))

\* a worksheet of mark class Bar with a measure in rows and in columns, which
\* is a scatter plot for Automatic, has an element of type column
C13_Witness ==
    \E w \in NodesOfClass(nodes, "Worksheet") :
       /\ ClaimMark(w) = "Bar"
       /\ ClaimMeasureIn(nodes[w].rows)
       /\ ClaimMeasureIn(nodes[w].cols)
       /\ nodes[w]._lookml_dashboardelement # 0
       /\ objs[nodes[w]._lookml_dashboardelement].type = "looker_column"

\* the worksheets whose mark class is Automatic or in the fixed table
ClaimSupported ==
    {w \in NodesOfClass(nodes, "Worksheet") :
        ClaimMark(w) \in ClaimFixedMarks \cup {"Automatic"}}

\* C15: a worksheet whose first pane has a mark class that is neither
\* Automatic nor in the fixed table has no dashboard element, and the
\* elements registered in the project are those of the other worksheets, one
\* each
C15_UnsupportedMark ==
    /\ \A w \in NodesOfClass(nodes, "Worksheet") :
          w \notin ClaimSupported => nodes[w]._lookml_dashboardelement = 0
    /\ exc = None =>
          Values(objs[TheProject].lookml_dashboardelements)
             = {nodes[w]._lookml_dashboardelement : w \in ClaimSupported}

\* the worksheets of the supported mark classes have an element each,
\* registered once in the project and in its first dashboard
C15_OtherElementsProduced ==
    exc = None =>
       \A w \in ClaimSupported :
          LET e == nodes[w]._lookml_dashboardelement
              reg == objs[TheProject].lookml_dashboardelements
          IN /\ e # 0
             /\ Cardinality({i \in DOMAIN reg : reg[i][2] = e}) = 1
             /\ e \in Values(objs[objs[TheProject].lookml_dashboards[1][2]]
                                 .lookml_dashboard_elements)

RECURSIVE ClaimFirstSeen(_)
\* the sequence without the later occurrences of its elements
ClaimFirstSeen(fs) ==
    IF fs = <<>> THEN <<>>
    ELSE LET front == SubSeq(fs, 1, Len(fs) - 1)
         IN IF fs[Len(fs)] \in Range(front) THEN ClaimFirstSeen(front)
            ELSE Append(ClaimFirstSeen(front), fs[Len(fs)])

\* the derived fields of the column instances on the rows, the columns and
\* the text, size and color encodings of worksheet w, in this order
ClaimUsedFields(w) ==
    LET cis == nodes[w].rows \o nodes[w].cols \o nodes[w].pane_texts
                   \o nodes[w].pane_wedge_sizes \o nodes[w].pane_colors
    IN [i \in DOMAIN cis |-> nodes[cis[i]]._lookml_derived_field]

\* C16: the field list of the element of a worksheet has the field of every
\* column usage on its rows, columns, pane texts, pane sizes and pane colors
\* (dimension, measure or date truncation), once each, in the order of the
\* first occurrences
C16_FieldList ==
    \A w \in NodesOfClass(nodes, "Worksheet") :
       nodes[w]._lookml_dashboardelement # 0 =>
          objs[nodes[w]._lookml_dashboardelement].fields = ClaimFirstSeen(ClaimUsedFields(w))

\* what the field list is: the measures among the used fields, one for each
\* occurrence
C16_FieldListIsMeasures ==
    \A w \in NodesOfClass(nodes, "Worksheet") :
       nodes[w]._lookml_dashboardelement # 0 =>
          objs[nodes[w]._lookml_dashboardelement].fields
             = SelectSeq(ClaimUsedFields(w), LAMBDA f : objs[f].lookml_struct_type = "measure")
(***************************************************************************)
(* Claims about the explores and views of join and union relations and of  *)
(* an object graph without relationships, checked under SpecGraph.         *)
(***************************************************************************)
\* the last step read property on a relation of type rel_type
ClaimLastRead(property, rel_type) ==
    /\ ret.property = property
    /\ nodes[ret.node].cls = "Relation"
    /\ nodes[ret.node].rel_type = rel_type

\* the explores in the registries of the models
ClaimRegisteredExplores ==
    UNION {Values(objs[m].lookml_explores) : m \in {i \in DOMAIN objs : objs[i].cls = "LookMLModel"}}

\* the views in the registries of the models
ClaimRegisteredViews ==
    UNION {Values(objs[m].lookml_views) : m \in {i \in DOMAIN objs : objs[i].cls = "LookMLModel"}}

\* C17: the read of lookml_explore of a join relation with two child
\* relations returns an explore whose first object is the explore or else the
\* view of the first child, whose second object is the view of the second
\* child, whose join type is the one of the relation's join string and whose
\* predicates are those of the join clause in order; the explore is
\* registered in the model of the datasource
C17_JoinRelationExplore ==
    (/\ ClaimLastRead("Relation.lookml_explore", "join")
     /\ Len(nodes[ret.node].children_relations) = 2)
       => LET c1 == nodes[nodes[ret.node].children_relations[1]]
              c2 == nodes[nodes[ret.node].children_relations[2]]
          IN /\ exc = None
             /\ ret.val # 0
             /\ objs[ret.val].cls = "LookMLExplore"
             /\ objs[ret.val].first_object
                   = IF c1._lookml_explore # 0 THEN c1._lookml_explore ELSE c1._lookml_view
             /\ objs[ret.val].first_object # 0
             /\ objs[ret.val].second_object = c2._lookml_view
             /\ objs[ret.val].second_object # 0
             /\ objs[ret.val].join_type = _get_join_type_enum(nodes[ret.node].rel_join)
             /\ objs[ret.val].join_sql_on # <<>>
             /\ Len(objs[ret.val].join_sql_on[1])
                   = IF nodes[ret.node].join_expression = <<>> THEN 0
                     ELSE Len(yield_joins(nodes, nodes[ret.node].join_expression[1], ret.node))
             /\ ret.val \in ClaimRegisteredExplores

\* what the read does: it makes the explores of the two children and raises,
\* and the join relation has no explore
C17_JoinRelationRaises ==
    (/\ ClaimLastRead("Relation.lookml_explore", "join")
     /\ Len(nodes[ret.node].children_relations) = 2)
       => /\ exc = "TypeError"
          /\ nodes[ret.node]._lookml_explore = 0
          /\ \A i \in 1..2 :
                nodes[nodes[ret.node].children_relations[i]]._lookml_explore
                   \in ClaimRegisteredExplores

\* C18: the read of lookml_view of a union relation returns, without an
\* exception, a registered view whose table is the table reference of the
\* first child relation; and a metadata record of a union relation does not
\* end the translation of the datasource
C18_UnionView ==
    /\ ClaimLastRead("Relation.lookml_view", "union")
          => /\ exc = None
             /\ ret.val # 0
             /\ ret.val = nodes[ret.node]._lookml_view
    /\ \A u \in NodesOfClass(nodes, "Relation") :
          (nodes[u].rel_type = "union" /\ nodes[u]._lookml_view # 0)
             => /\ nodes[u]._lookml_view \in ClaimRegisteredViews
                /\ nodes[u].children_relations # <<>> =>
                      LET items == FindBracketed(nodes[nodes[u].children_relations[1]].rel_table)
                      IN objs[nodes[u]._lookml_view].sql_table_items
                            = [i \in DOMAIN items |-> without_square_brackets(items[i])]
    /\ \A mc \in NodesOfClass(nodes, "MetadataColumn") :
          (/\ nodes[mc].relation # 0
           /\ nodes[nodes[mc].relation].rel_type = "union"
           /\ ~GraphParsed /\ ret = NoRead
           /\ nodes[TheDatasource].object_graph = 0)
             => exc = None

\* what holds of the view of a union relation: it is made once and it is
\* registered in the model, with no table
C18_UnionViewRegistered ==
    \A u \in NodesOfClass(nodes, "Relation") :
       (nodes[u].rel_type = "union" /\ nodes[u]._lookml_view # 0)
          => /\ nodes[u]._lookml_view \in ClaimRegisteredViews
             /\ objs[nodes[u]._lookml_view].sql_table_items = <<>>

\* the object graphs without relationship and with one logical table, whose
\* relation is of type table, text, union or join
ClaimSoleGraphs ==
    {g \in NodesOfClass(nodes, "ObjectGraph") :
        /\ nodes[g].relationships = <<>>
        /\ Len(nodes[g].logical_tables_dict) = 1
        /\ nodes[nodes[g].logical_tables_dict[1][2]].relation # 0
        /\ nodes[nodes[nodes[g].logical_tables_dict[1][2]].relation].rel_type
              \in {"table", "text", "union", "join"}}

\* the registered explores without join over the view of relation r
ClaimExploresOf(r) ==
    {e \in ClaimRegisteredExplores :
        /\ nodes[r]._lookml_view # 0
        /\ objs[e].first_object = nodes[r]._lookml_view
        /\ objs[e].second_object = 0}

\* C19: the explore of an object graph with no relationship is the explore
\* of the relation of its sole logical table: a read of lookml_explore of the
\* graph that raises nothing returns an explore, the one that lookml_explore
\* of that relation returns, and the model has one explore for the relation
C19_SoleLogicalTable ==
    \A g \in ClaimSoleGraphs :
       LET r == nodes[nodes[g].logical_tables_dict[1][2]].relation
       IN /\ (/\ ret.property = "ObjectGraph.lookml_explore"
              /\ ret.node = g
              /\ exc = None) => ret.val # 0
          /\ (nodes[g]._lookml_explore # 0 /\ nodes[r]._lookml_explore # 0)
                => nodes[g]._lookml_explore = nodes[r]._lookml_explore
          /\ Cardinality(ClaimExploresOf(r)) <= 1

\* the part of C19 for a table relation alone: one explore, the same entity
C19_SoleLogicalTableOfTable ==
    \A g \in ClaimSoleGraphs :
       LET r == nodes[nodes[g].logical_tables_dict[1][2]].relation
       IN nodes[r].rel_type = "table" =>
             /\ (nodes[g]._lookml_explore # 0 /\ nodes[r]._lookml_explore # 0)
                   => nodes[g]._lookml_explore = nodes[r]._lookml_explore
             /\ Cardinality(ClaimExploresOf(r)) <= 1

\* what the explore of such a graph is: an explore of its own over the view
\* of the relation, registered in the model
C19_SoleLogicalTableOwnExplore ==
    \A g \in ClaimSoleGraphs :
       LET r == nodes[nodes[g].logical_tables_dict[1][2]].relation
           e == nodes[g]._lookml_explore
       IN e # 0 =>
             /\ e # nodes[r]._lookml_explore
             /\ objs[e].first_object = nodes[r]._lookml_view
             /\ objs[e].second_object = 0
(***************************************************************************)
(* The aliases in the text of an explore.  LookMLExplore.lookml_str keeps  *)
(* the dict view_aliases, here the sequence of its items <<alias, view>>   *)
(* in the order of insertion, and writes for each predicate of a join      *)
(* block the aliases that it finds for the views of the two fields.        *)
(***************************************************************************)
\* the alias that is the name of the view, whatever the keys are
join_alias_CandidateZero(view_aliases_so_far, p_name) ==
    lookml_name_generator(p_name, 0).value

\* "for name_gen in lookml_name_generator(...): if name_gen not in
\* view_aliases": the first candidate that is no key of view_aliases
join_alias(view_aliases_so_far, p_name) == ForFirstFree(p_name, view_aliases_so_far).name

RECURSIVE view_aliases(_, _, _)
\* view_aliases after the first k explores of yield_child_explores: the name
\* of the explore for the view of the innermost explore, and for each second
\* object the first candidate of its name that is no key yet (the names of
\* the views are not empty: the generator yields)
view_aliases(O, self, k) ==
    IF k = 0 THEN <<>>
    ELSE LET act_explore == yield_child_explores(O, self)[k]
             before == view_aliases(O, self, k - 1)
             named == IF /\ O[act_explore].first_object # 0
                         /\ O[O[act_explore].first_object].cls = "LookMLView"
                      THEN <<<<O[self].lookml_name, O[act_explore].first_object>>>>
                      ELSE before
         IN IF O[act_explore].second_object = 0 THEN named
            ELSE Append(named,
                        <<join_alias(named, O[O[act_explore].second_object].lookml_name),
                          O[act_explore].second_object>>)

RECURSIVE table_aliases(_, _, _, _, _, _, _)
\* the loop "for view_alias, used_view in view_aliases.items()" from item i
\* on: an item of the view of col1 sets col1_table_alias, and only an item
\* of another view can set col2_table_alias; the loop ends when one is set
\* and the other was set before
table_aliases(O, aliases, i, col1, col2, col1_table_alias, col2_table_alias) ==
    IF i > Len(aliases) THEN <<col1_table_alias, col2_table_alias>>
    ELSE IF aliases[i][2] = O[col1].owner
    THEN IF col2_table_alias # <<>> THEN <<aliases[i][1], col2_table_alias>>
         ELSE table_aliases(O, aliases, i + 1, col1, col2, aliases[i][1], col2_table_alias)
    ELSE IF aliases[i][2] = O[col2].owner
    THEN IF col1_table_alias # <<>> THEN <<col1_table_alias, aliases[i][1]>>
         ELSE table_aliases(O, aliases, i + 1, col1, col2, col1_table_alias, aliases[i][1])
    ELSE table_aliases(O, aliases, i + 1, col1, col2, col1_table_alias, col2_table_alias)

\* the join blocks of the text of explore self, for a text that is written
\* (no join_sql_on is None): the alias of the block, view_aliases when the
\* block is written, and the two aliases of each predicate of sql_on
join_blocks(O, self) ==
    LET es == yield_child_explores(O, self)
        at == {i \in DOMAIN es : O[es[i]].second_object # 0}
        nth(k) == CHOOSE i \in at : Cardinality({j \in at : j <= i}) = k
        block(i) ==
            LET aliases == view_aliases(O, self, i)
                join_sql_on == O[es[i]].join_sql_on[1]
            IN [name_gen |-> aliases[Len(aliases)][1],
                view_aliases |-> aliases,
                join_sql_on |-> join_sql_on,
                sql_on |-> [p \in DOMAIN join_sql_on |->
                               table_aliases(O, aliases, 1, join_sql_on[p][1],
                                             join_sql_on[p][3], <<>>, <<>>)]]
    IN [k \in 1..Cardinality(at) |-> block(nth(k))]

\* a line of the text of an explore
Line(kind, name) == [kind |-> kind, name |-> name]

RECURSIVE explore_lines(_, _, _)
\* the lines that the loop of lookml_str over yield_child_explores appends
\* for the first k explores, for a text that is written: "explore:" and
\* "from:" for a first object that is a view; "join:", "from:", "type:",
\* "relationship:", "sql_on:" and "}" for a second object
explore_lines(O, self, k) ==
    IF k = 0 THEN <<>>
    ELSE LET act_explore == yield_child_explores(O, self)[k]
             first_object == O[act_explore].first_object
             second_object == O[act_explore].second_object
             aliases == view_aliases(O, self, k)
             name_gen == aliases[Len(aliases)][1]
         IN explore_lines(O, self, k - 1)
               \o (IF first_object # 0 /\ O[first_object].cls = "LookMLView"
                   THEN <<Line("explore:", O[self].lookml_name)>>
                           \o (IF O[self].lookml_name # O[first_object].lookml_name
                               THEN <<Line("from:", O[first_object].lookml_name)>>
                               ELSE <<>>)
                   ELSE <<>>)
               \o (IF second_object # 0
                   THEN <<Line("join:", name_gen)>>
                           \o (IF name_gen # O[second_object].lookml_name
                               THEN <<Line("from:", O[second_object].lookml_name)>>
                               ELSE <<>>)
                           \o <<Line("type:", <<>>), Line("relationship:", <<>>),
                                Line("sql_on:", <<>>), Line("}", <<>>)>>
                   ELSE <<>>)

\* expore_text_list of lookml_str: the connection, the two include
\* directives with the empty lines, the lines of the explores, and "}"
expore_text_list(O, self) ==
    <<Line("connection:", <<>>), Line("", <<>>), Line("include:", <<>>),
      Line("include:", <<>>), Line("", <<>>)>>
       \o explore_lines(O, self, Len(yield_child_explores(O, self)))
       \o <<Line("}", <<>>)>>

RECURSIVE JoinWithDots(_)
\* '.'.join(items)
JoinWithDots(items) ==
    IF items = <<>> THEN <<>>
    ELSE IF Len(items) = 1 THEN items[1]
    ELSE items[1] \o <<".">> \o JoinWithDots(Tail(items))

\* LookMLView.sql_table_name of a view that is in a model of the project: the
\* items between the quote characters of the project, joined with "."
sql_table_name(O, self) ==
    LET project == O[O[O[self].owner].owner] IN
    JoinWithDots([i \in DOMAIN O[self].sql_table_items |->
                     <<project.quote_char_start>> \o O[self].sql_table_items[i]
                        \o <<project.quote_char_end>>])

\* LookMLView.iter_lookml_field_params of a view that is no extension and has
\* no label, as the views of relations are: the sql_table_name, the
\* derived_table with the sql, and the fields of the registry in its order
iter_lookml_field_params(O, self) ==
    (IF sql_table_name(O, self) # <<>>
     THEN <<Line("sql_table_name:", sql_table_name(O, self))>> ELSE <<>>)
       \o (IF O[self].sql # <<>> THEN <<Line("derived_table:", O[self].sql)>> ELSE <<>>)
       \o [i \in DOMAIN O[self].fields |-> Line("field", O[self].fields[i][1])]

RECURSIVE model_file(_, _)
\* the lines that LookMLModel.deploy_object writes into the model file for
\* the items of lookml_explores: lookml_str of each explore, then a newline;
\* a lookml_str that raises ends the writing
model_file(O, lookml_explores) ==
    IF lookml_explores = <<>> THEN [exc |-> None, lines |-> <<>>]
    ELSE LET act_explore == Head(lookml_explores)[2] IN
         IF lookml_str(O, act_explore).exc # None
         THEN [exc |-> lookml_str(O, act_explore).exc, lines |-> <<>>]
         ELSE LET rest == model_file(O, Tail(lookml_explores))
              IN [exc |-> rest.exc, lines |-> expore_text_list(O, act_explore) \o rest.lines]

(***************************************************************************)
(* The serialization of explores.  The state after the translation of a    *)
(* datasource of the tables a and b, each with the column id and with its  *)
(* explore; then explores are made as ObjectGraph.gen_lookml_explore and   *)
(* Relation.lookml_explore make them, LookMLExplore() with first_object,   *)
(* second_object and join_sql_on assigned, added to the model, and         *)
(* written by LookMLModel.deploy_object, which reads lookml_str.           *)
(***************************************************************************)
MaxJoins == 2

StrDocument ==
    LET S0 == GraphDocument([NBlank EXCEPT !.rel_type = "collection", !.rel_join = "inner",
                                           !.children_relations = <<5, 6>>],
                            <<TableRelation(4, <<"a">>), TableRelation(4, <<"b">>)>>)
    IN Bind(extract_metadata_column(S0, <<LookMLProject>>, TheConnection,
                                    MetadataRecord(<<"a">>, <<"i", "d">>, "integer")),
            LAMBDA r1 :
       Bind(extract_metadata_column(r1.nodes, r1.objs, TheConnection,
                                    MetadataRecord(<<"b">>, <<"i", "d">>, "integer")),
            LAMBDA r2 :
       Bind(Relation_lookml_explore(r2.nodes, r2.objs, 5), LAMBDA r3 :
       Relation_lookml_explore(r3.nodes, r3.objs, 6))))

StrInit ==
    /\ objs = StrDocument.objs
    /\ exc = StrDocument.exc
    /\ NoGen
    /\ nodes = StrDocument.nodes
    /\ ret = NoRead

\* join_sql_on of a new explore: None, or a list of no predicate, of one
\* predicate between base fields of the views, or of a predicate and the
\* same with its sides exchanged
StrPredicates ==
    LET fields == OfClass(objs, "ViewBaseField")
        predicates == {<<col1, "=", col2>> : col1 \in fields, col2 \in fields}
    IN {<<>>, <<(<<>>)>>} \cup {<<(<<p>>)>> : p \in predicates}
          \cup {<<(<<p, <<p[3], "=", p[1]>> >>)>> : p \in predicates}

\* new_explore = LookMLExplore() with first_object an explore, second_object
\* a view and join_sql_on
StrJoin ==
    /\ exc = None
    /\ ret = NoRead
    /\ Cardinality({e \in OfClass(objs, "LookMLExplore") : objs[e].second_object # 0}) < MaxJoins
    /\ \E first_object \in OfClass(objs, "LookMLExplore"),
          second_object \in OfClass(objs, "LookMLView"),
          join_sql_on \in StrPredicates :
          objs' = Append(objs, [LookMLExplore EXCEPT !.first_object = first_object,
                                                     !.second_object = second_object,
                                                     !.join_type = "inner",
                                                     !.join_sql_on = join_sql_on])
    /\ UNCHANGED <<gvars, exc, nodes, ret>>

\* lookml_model.add_explore of an explore that is in no registry
StrAddExplore ==
    /\ exc = None
    /\ ret = NoRead
    /\ \E m \in OfClass(objs, "LookMLModel"), e \in OfClass(objs, "LookMLExplore") :
          /\ e \notin Values(objs[m].lookml_explores)
          /\ Apply(add_explore(objs, m, e))

\* act_explore.lookml_str of a registered explore, as deploy_object reads it
StrSerialize ==
    /\ ret.reads < MaxReads
    /\ \E m \in OfClass(objs, "LookMLModel") :
          \E e \in Values(objs[m].lookml_explores) :
             /\ exc' = lookml_str(objs, e).exc
             /\ ret' = [property |-> "LookMLExplore.lookml_str", node |-> e, val |-> 0,
                        reads |-> ret.reads + 1]
    /\ UNCHANGED <<gvars, objs, nodes>>

\* LookMLModel.deploy_object of a model, which writes the model file
StrDeploy ==
    /\ ret.reads < MaxReads
    /\ \E m \in OfClass(objs, "LookMLModel") :
          /\ exc' = model_file(objs, objs[m].lookml_explores).exc
          /\ ret' = [property |-> "LookMLModel.deploy_object", node |-> m, val |-> 0,
                     reads |-> ret.reads + 1]
    /\ UNCHANGED <<gvars, objs, nodes>>

StrNext == StrJoin \/ StrAddExplore \/ StrSerialize \/ StrDeploy

SpecStr == StrInit /\ [][StrNext]_vars
(***************************************************************************)
(* Claims about the aliases in the text of an explore: of the explores of  *)
(* object graphs under SpecGraph, of the serialization under SpecStr.      *)
(***************************************************************************)
\* the text of explore e is written, and each alias in the sql_on of its
\* k-th join block is not empty and is the name of the explore or the alias
\* of one of the first k join blocks
ClaimAliasesIntroduced(e) ==
    /\ lookml_str(objs, e).exc = None
    /\ LET blocks == join_blocks(objs, e)
       IN \A k \in DOMAIN blocks :
             \A p \in DOMAIN blocks[k].sql_on :
                \A side \in 1..2 :
                   /\ blocks[k].sql_on[p][side] # <<>>
                   /\ blocks[k].sql_on[p][side]
                         \in {objs[e].lookml_name} \cup {blocks[h].name_gen : h \in 1..k}

\* C14: in the text of the explore of every object graph, each alias in the
\* sql_on of a join is not empty and was introduced before it in the text,
\* as the name of the explore or as the alias of a join block that is open
C14_AliasesIntroduced ==
    \A g \in NodesOfClass(nodes, "ObjectGraph") :
       nodes[g]._lookml_explore # 0 => ClaimAliasesIntroduced(nodes[g]._lookml_explore)

\* the explore of an object graph has a text if and only if it has no join
C14_TextOnlyWithoutJoin ==
    \A g \in NodesOfClass(nodes, "ObjectGraph") :
       nodes[g]._lookml_explore # 0 =>
          (lookml_str(objs, nodes[g]._lookml_explore).exc = None
              <=> ClaimLevels(nodes[g]._lookml_explore) = <<>>)

\* the same as C14 of the texts that lookml_str writes for explores with
\* predicates
C14_AliasesOfWrittenTexts ==
    (ret.property = "LookMLExplore.lookml_str" /\ exc = None)
       => ClaimAliasesIntroduced(ret.node)

\* the items of view_aliases for the view of field col, in the order of
\* declaration
ClaimBound(aliases, col) == {j \in DOMAIN aliases : aliases[j][2] = objs[col].owner}

\* C20: in the text of an explore, the alias of the left and of the right
\* field of every predicate is the alias declared first for the view of the
\* field among the aliases declared so far, also where both fields are of
\* one view and where the view has more than one alias
C20_FirstDeclaredAlias ==
    (ret.property = "LookMLExplore.lookml_str" /\ exc = None) =>
       LET blocks == join_blocks(objs, ret.node)
       IN \A k \in DOMAIN blocks :
             \A p \in DOMAIN blocks[k].sql_on :
                \A side \in 1..2 :
                   LET bound == ClaimBound(blocks[k].view_aliases,
                                           blocks[k].join_sql_on[p][2 * side - 1])
                   IN bound # {} =>
                         blocks[k].sql_on[p][side]
                            = blocks[k].view_aliases[CHOOSE j \in bound :
                                                        \A h \in bound : j <= h][1]

\* where the fields of a predicate are of two views and each view has one
\* alias, the two aliases are those
C20_TwoViewsOneAliasEach ==
    (ret.property = "LookMLExplore.lookml_str" /\ exc = None) =>
       LET blocks == join_blocks(objs, ret.node)
       IN \A k \in DOMAIN blocks :
             \A p \in DOMAIN blocks[k].sql_on :
                LET b1 == ClaimBound(blocks[k].view_aliases, blocks[k].join_sql_on[p][1])
                    b2 == ClaimBound(blocks[k].view_aliases, blocks[k].join_sql_on[p][3])
                IN (Cardinality(b1) = 1 /\ Cardinality(b2) = 1 /\ b1 # b2) =>
                      \A side \in 1..2 :
                         blocks[k].sql_on[p][side]
                            = blocks[k].view_aliases[
                                  CHOOSE j \in (IF side = 1 THEN b1 ELSE b2) : TRUE][1]
(***************************************************************************)
(* Claims about the join aliases and the order of the text of an explore,  *)
(* checked under SpecStr.                                                  *)
(***************************************************************************)
\* the last step wrote the text of an explore
ClaimWritten == ret.property = "LookMLExplore.lookml_str" /\ exc = None

\* the "join:" lines of a text with their positions
ClaimJoinLines(text) == {i \in DOMAIN text : text[i].kind = "join:"}

\* C21: in the text of an explore, the alias of each join block is the first
\* candidate of the name of its view that is neither the name of the explore
\* nor the alias of a join block before it, whatever the model has
\* registered: the aliases are pairwise distinct and differ from the name of
\* the explore, and a block has a "from:" line with the name of its view if
\* and only if its alias is not that name
C21_JoinAliases ==
    ClaimWritten =>
       LET e == ret.node
           text == expore_text_list(objs, e)
           levels == ClaimLevels(e)
           js == ClaimJoinLines(text)
           nth(k) == CHOOSE i \in js : Cardinality({j \in js : j <= i}) = k
           alias(k) == text[nth(k)].name
           view(k) == objs[objs[levels[k]].second_object].lookml_name
           taken(k) == {objs[e].lookml_name} \cup {alias(h) : h \in 1..(k - 1)}
       IN /\ Cardinality(js) = Len(levels)
          /\ \A k \in DOMAIN levels :
                /\ \E n \in 0..k :
                      /\ alias(k) = ClaimCandidate(view(k), n)
                      /\ \A m \in 0..(n - 1) : ClaimCandidate(view(k), m) \in taken(k)
                /\ alias(k) \notin taken(k)
                /\ text[nth(k) + 1] = Line("from:", view(k)) <=> alias(k) # view(k)

\* the text of an explore that joins one view twice: the two join blocks
\* have different aliases, and one of them a "from:" line
C21_Witness ==
    /\ ClaimWritten
    /\ LET text == expore_text_list(objs, ret.node)
           levels == ClaimLevels(ret.node)
       IN /\ Len(levels) = 2
          /\ objs[levels[1]].second_object = objs[levels[2]].second_object
          /\ \E i, j \in ClaimJoinLines(text) :
                /\ i < j
                /\ text[i].name # text[j].name
                /\ text[j + 1].kind = "from:"
(***************************************************************************)
(* The join expressions of a relationship.  A datasource of the tables a   *)
(* and b, of a second relation called a, over the table t, and of a        *)
(* relation called t, over the table u, gets metadata records of the       *)
(* columns id and x, and then its object graph with the objects a and b    *)
(* and one relationship a-b, whose expression is a comparison or an AND of *)
(* comparisons between column names; ObjectGraph.gen_lookml_explore reads  *)
(* yield_joins of it.                                                      *)
(***************************************************************************)
JoinDocument ==
    GraphDocument([NBlank EXCEPT !.rel_type = "collection", !.rel_join = "inner",
                                 !.children_relations = <<5, 6, 7, 8>>],
                  <<TableRelation(4, <<"a">>), TableRelation(4, <<"b">>),
                    [TableRelation(4, <<"a">>) EXCEPT
                        !.rel_table = <<"[", "s", "]", ".", "[", "t", "]">>],
                    [TableRelation(4, <<"t">>) EXCEPT
                        !.rel_table = <<"[", "s", "]", ".", "[", "u", "]">>]>>)

\* the parent-names of the metadata records: z is the name of no relation
JoinParents == {<<"a">>, <<"b">>, <<"t">>, <<"z">>}

\* the column names in the expressions: z is the name of no column
JoinNames == {<<"i", "d">>, <<"x">>, <<"z">>}

\* the expression element of a column name, the index-th child of its parent
Operand(name, index) == [op |-> name, index |-> index, children_expressions |-> <<>>]

\* left = right as the index-th child of its parent
Comparison(left, right, index) ==
    [op |-> <<"=">>, index |-> index,
     children_expressions |-> <<Operand(left, 0), Operand(right, 1)>>]

\* a comparison; an = with one operand only; an AND of two or three
\* comparisons
JoinExpressions ==
    {Comparison(l, r, 0) : l \in JoinNames, r \in JoinNames}
       \cup {[op |-> <<"=">>, index |-> 0,
              children_expressions |-> <<Operand(<<"i", "d">>, 0)>>]}
       \cup {[op |-> <<"A", "N", "D">>, index |-> 0, children_expressions |-> cs] :
                cs \in {<<Comparison(l1, r1, 0), Comparison(l2, r2, 1)>> :
                           l1 \in JoinNames, r1 \in JoinNames,
                           l2 \in JoinNames, r2 \in JoinNames}
                       \cup {<<Comparison(l1, r1, 0), Comparison(l2, r2, 1),
                               Comparison(<<"x">>, <<"i", "d">>, 2)>> :
                                l1 \in JoinNames, r1 \in JoinNames,
                                l2 \in JoinNames, r2 \in JoinNames}}

JoinInit ==
    /\ objs = <<LookMLProject>>
    /\ exc = None
    /\ NoGen
    /\ nodes = JoinDocument
    /\ ret = NoRead

\* a metadata record of the column id or x with one of the parent-names
JoinExtractMetadataColumn ==
    /\ exc = None
    /\ ~GraphParsed
    /\ nodes[TheDatasource].object_graph = 0
    /\ Cardinality(NodesOfClass(nodes, "MetadataColumn")) < MaxCols
    /\ \E parent \in JoinParents, remote_name \in JoinNames \ {<<"z">>} :
          /\ \A mc \in NodesOfClass(nodes, "MetadataColumn") :
                nodes[mc].parent_name = <<"[">> \o parent \o <<"]">>
                   => nodes[mc].remote_name # remote_name
          /\ ApplyT(extract_metadata_column(
                        nodes, objs, TheConnection,
                        MetadataRecord(parent, remote_name, "integer")),
                    NoRead)

\* the object graph of the objects a and b with the relationship a-b
JoinExtractObjectGraph ==
    /\ exc = None
    /\ ~GraphParsed
    /\ nodes[TheDatasource].object_graph = 0
    /\ \E expression \in JoinExpressions :
          ApplyT(extract_object_graph(
                     nodes, objs, TheDatasource,
                     <<[objects |-> <<[id |-> <<"a">>, relation |-> RawRelation(nodes, 5)],
                                      [id |-> <<"b">>, relation |-> RawRelation(nodes, 6)]>>,
                        relationships |-> <<[first |-> <<"a">>, second |-> <<"b">>,
                                             join |-> "inner",
                                             expression |-> <<expression>>]>>]>>),
                 NoRead)

JoinNext == JoinExtractMetadataColumn \/ JoinExtractObjectGraph

SpecJoin == JoinInit /\ [][JoinNext]_vars

(***************************************************************************)
(* Claims about the predicates of the expression of a relationship,        *)
(* checked under SpecJoin.                                                 *)
(***************************************************************************)
\* the relation of the first (side 1) or second (side 2) logical table of
\* relationship r
ClaimSide(r, side) ==
    ClaimRelationOf(nodes[r].parent_object,
                    IF side = 1 THEN nodes[r].first_endpoint_id
                    ELSE nodes[r].second_endpoint_id)

\* the metadata columns called name that were attached to relation rel
ClaimColumnsAt(rel, name) ==
    {mc \in NodesOfClass(nodes, "MetadataColumn") :
        nodes[mc].relation = rel /\ nodes[mc].remote_name = name}

\* the comparisons of the expression of relationship r, in their order
ClaimComparisons(r) ==
    IF nodes[r].join_expression[1].op = <<"A", "N", "D">>
    THEN nodes[r].join_expression[1].children_expressions
    ELSE <<nodes[r].join_expression[1]>>

\* comparison c of relationship r has two operands, the left one the name of a
\* column of the first table and the right one of a column of the second
ClaimResolved(r, c) ==
    /\ Len(c.children_expressions) = 2
    /\ ClaimColumnsAt(ClaimSide(r, 1), c.children_expressions[1].op) # {}
    /\ ClaimColumnsAt(ClaimSide(r, 2), c.children_expressions[2].op) # {}

\* the relationships of a parsed object graph that have an expression
ClaimRelationships ==
    {r \in NodesOfClass(nodes, "Relationship") : nodes[r].join_expression # <<>>}

\* C22: yield_joins of the expression of a relationship yields one predicate
\* for every comparison whose two operands resolve, in the order of the
\* comparisons (the children of an AND, or the lone comparison); a comparison
\* with an operand that does not resolve is left out alone, and the others
\* are still there in their order
C22_PredicatePerComparison ==
    \A r \in ClaimRelationships :
       LET joins == yield_joins(nodes, nodes[r].join_expression[1], r)
           kept == SelectSeq(ClaimComparisons(r), LAMBDA c : ClaimResolved(r, c))
       IN /\ Len(joins) = Len(kept)
          /\ \A k \in DOMAIN joins :
                /\ nodes[joins[k][1]].remote_name = kept[k].children_expressions[1].op
                /\ joins[k][2] = kept[k].op
                /\ nodes[joins[k][3]].remote_name = kept[k].children_expressions[2].op

\* C22 witness: an AND of three comparisons was read, the second of them has
\* an operand without column, and the first and the third, which differ, gave
\* the two predicates
C22_Witness ==
    \E r \in ClaimRelationships :
       LET cs == ClaimComparisons(r) IN
       /\ Len(cs) = 3
       /\ ClaimResolved(r, cs[1]) /\ ~ClaimResolved(r, cs[2]) /\ ClaimResolved(r, cs[3])
       /\ cs[1] # [cs[3] EXCEPT !.index = 0]
       /\ Len(yield_joins(nodes, nodes[r].join_expression[1], r)) = 2
       /\ exc = "AttributeError"

\* C23: in the expression of a relationship the left operand of a comparison
\* resolves to the column of its name in the relation of the first logical
\* table and to nothing if there is none, and the right operand to the column
\* of its name in the relation of the second logical table and to nothing if
\* there is none, whatever columns the other side has
C23_OperandSide ==
    \A r \in ClaimRelationships :
       \A k \in DOMAIN ClaimComparisons(r) :
          \A side \in DOMAIN ClaimComparisons(r)[k].children_expressions :
             LET operand == ClaimComparisons(r)[k].children_expressions[side]
                 mc == _metacolumn_from_relationship(nodes, operand, r)
                 own == ClaimColumnsAt(ClaimSide(r, side), operand.op)
             IN IF own = {} THEN mc = 0 ELSE mc \in own

\* C23 witness: a comparison was read whose left name is a column of the
\* second table only, and whose right name is a column of both tables
C23_Witness ==
    \E r \in ClaimRelationships :
       \E k \in DOMAIN ClaimComparisons(r) :
          LET c == ClaimComparisons(r)[k] IN
          /\ Len(c.children_expressions) = 2
          /\ ClaimColumnsAt(ClaimSide(r, 1), c.children_expressions[1].op) = {}
          /\ ClaimColumnsAt(ClaimSide(r, 2), c.children_expressions[1].op) # {}
          /\ ClaimColumnsAt(ClaimSide(r, 1), c.children_expressions[2].op) # {}
          /\ ClaimColumnsAt(ClaimSide(r, 2), c.children_expressions[2].op) # {}
          /\ _metacolumn_from_relationship(nodes, c.children_expressions[1], r) = 0
          /\ nodes[_metacolumn_from_relationship(nodes, c.children_expressions[2], r)].relation
                = ClaimSide(r, 2)

(***************************************************************************)
(* Claims about relationships whose second logical table is not there,     *)
(* checked under SpecGraph.                                                *)
(***************************************************************************)
\* the relationships of object graph g whose second logical table is among
\* the objects of the graph, in their order
ClaimChained(g) ==
    SelectSeq(nodes[g].relationships,
              LAMBDA r : ClaimRelationOf(g, nodes[r].second_endpoint_id) # 0)

\* object graph g has relationships, one of them to an object that is not
\* there; its logical tables are over table relations, and no predicate of
\* its relationships is to be appended
ClaimLookupFails(g) ==
    /\ nodes[g].relationships # <<>>
    /\ Len(ClaimChained(g)) < Len(nodes[g].relationships)
    /\ \A i \in DOMAIN nodes[g].logical_tables_dict :
          /\ nodes[nodes[g].logical_tables_dict[i][2]].relation # 0
          /\ nodes[nodes[nodes[g].logical_tables_dict[i][2]].relation].rel_type = "table"
    /\ \A i \in DOMAIN nodes[g].relationships :
          ClaimPredicates(nodes[g].relationships[i]) = <<>>

ClaimSegmentNames == {<<"a">>, <<"b">>, <<"c">>, <<"d">>, <<"s">>}

MaxSegments == 3

RECURSIVE ClaimReference(_)
\* the table reference of the segments: [s1].[s2]...
ClaimReference(segments) ==
    IF segments = <<>> THEN <<>>
    ELSE <<"[">> \o Head(segments) \o <<"]">>
            \o (IF Len(segments) = 1 THEN <<>> ELSE <<".">> \o ClaimReference(Tail(segments)))

\* the segments of which table is the reference
ClaimSegmentsOf(table) ==
    CHOOSE segments \in UNION {[1..n -> ClaimSegmentNames] : n \in 0..MaxSegments} :
       ClaimReference(segments) = table

RECURSIVE ClaimQuoted(_)
\* the segments between backticks, with dots between them
ClaimQuoted(segments) ==
    IF segments = <<>> THEN <<>>
    ELSE <<"U+0060">> \o Head(segments) \o <<"U+0060">>
            \o (IF Len(segments) = 1 THEN <<>> ELSE <<".">> \o ClaimQuoted(Tail(segments)))

\* the kinds of the parameter lines of view v that are no fields
ClaimParams(v) ==
    SelectSeq(iter_lookml_field_params(objs, v), LAMBDA l : l.kind # "field")

\* C25: every view is the view of a table, text or union relation; a join or
\* collection relation has no view, with or without metadata columns, and a
\* read of its lookml_view returns none and raises nothing; the view of a
\* table relation has the segments between brackets of the table reference,
\* in their order, as its sql_table_name and no derived table; the view of a
\* text relation has the SQL of the relation as its derived table and no
\* sql_table_name
C25_ViewsOfRelations ==
    /\ \A v \in OfClass(objs, "LookMLView") :
          \E r \in NodesOfClass(nodes, "Relation") :
             nodes[r]._lookml_view = v /\ nodes[r].rel_type \in {"table", "text", "union"}
    /\ \A r \in NodesOfClass(nodes, "Relation") :
          LET v == nodes[r]._lookml_view IN
          /\ nodes[r].rel_type \notin {"table", "text", "union"} =>
                /\ v = 0
                /\ (ret.property = "Relation.lookml_view" /\ ret.node = r) =>
                      ret.val = 0 /\ exc = None
          /\ (nodes[r].rel_type = "table" /\ v # 0 /\ v \in ClaimRegisteredViews) =>
                /\ objs[v].sql_table_items = ClaimSegmentsOf(nodes[r].rel_table)
                /\ ClaimParams(v) =
                      <<Line("sql_table_name:", ClaimQuoted(ClaimSegmentsOf(nodes[r].rel_table)))>>
          /\ (nodes[r].rel_type = "text" /\ v # 0 /\ v \in ClaimRegisteredViews) =>
                /\ objs[v].sql = nodes[r].rel_sql_text
                /\ ClaimParams(v) = <<Line("derived_table:", nodes[r].rel_sql_text)>>

\* C25 witness: the join j of the custom SQL q and the table b has a metadata
\* column and its lookml_view was read; q and b have their views, the one
\* of b with three segments
C25_Witness ==
    \E j \in NodesOfClass(nodes, "Relation") :
       /\ nodes[j].rel_type = "join"
       /\ \E mc \in NodesOfClass(nodes, "MetadataColumn") : nodes[mc].relation = j
       /\ ret.property = "Relation.lookml_view" /\ ret.node = j /\ ret.val = 0
       /\ \E q \in NodesOfClass(nodes, "Relation") :
             /\ nodes[q].rel_type = "text"
             /\ nodes[q]._lookml_view \in ClaimRegisteredViews
       /\ \E b \in NodesOfClass(nodes, "Relation") :
             /\ nodes[b].rel_type = "table"
             /\ nodes[b]._lookml_view \in ClaimRegisteredViews
             /\ Len(objs[nodes[b]._lookml_view].sql_table_items) = 3

(***************************************************************************)
(* Claims about the derivations that are no aggregation, checked under     *)
(* SpecView.                                                               *)
(***************************************************************************)
\* the suffix of the alias of a date truncation
ClaimTruncation(derivation) ==
    CASE derivation \in {"Year", "Year-Trunc"} -> <<"_", "y", "e", "a", "r">>
      [] derivation = "Month-Trunc" -> <<"_", "m", "o", "n", "t", "h">>
      [] derivation = "Quarter-Trunc" -> <<"_", "q", "u", "a", "r", "t", "e", "r">>

\* the registries of the views, by view
ClaimRegistries(O) == [v \in OfClass(O, "LookMLView") |-> O[v].fields]

\* the derived field of column instance ci is in no registry of a view
ClaimUnregistered(O, f) ==
    \A v \in OfClass(O, "LookMLView") : f \notin Values(O[v].fields)

ClaimModelFile(m) == model_file(objs, objs[m].lookml_explores).lines

\* the number of lines of a kind in a text
ClaimCount(text, kind) == Cardinality({i \in DOMAIN text : text[i].kind = kind})

\* the model file of the model was written in full
ClaimDeployed ==
    ret.property = "LookMLModel.deploy_object" /\ exc = None

\* C27: the model file that was written has one connection line and two
\* include directives, and one explore block for each explore in the
\* registry of the model
C27_OneHeader ==
    ClaimDeployed =>
       /\ ClaimCount(ClaimModelFile(ret.node), "connection:") = 1
       /\ ClaimCount(ClaimModelFile(ret.node), "include:") = 2
       /\ ClaimCount(ClaimModelFile(ret.node), "explore:")
             = Len(objs[ret.node].lookml_explores)

\* C27, as the code has it: the model file has, for each explore in the
\* registry of the model, a connection line, two include directives and an
\* explore block, each block after the header that lookml_str put before it
C27_HeaderPerExplore ==
    ClaimDeployed =>
       LET n == Len(objs[ret.node].lookml_explores) IN
       /\ ClaimCount(ClaimModelFile(ret.node), "connection:") = n
       /\ ClaimCount(ClaimModelFile(ret.node), "include:") = 2 * n
       /\ ClaimCount(ClaimModelFile(ret.node), "explore:") = n

(***************************************************************************)
(* Claims about the relation of a metadata column, checked under SpecJoin. *)
(***************************************************************************)
\* the relations of the connection, in pre-order
ClaimPreOrder == yield_relations(nodes, nodes[TheConnection].relation)

\* the first relation in pre-order that satisfies Matches, 0 if there is none
ClaimFirstRelation(Matches(_)) ==
    LET at == {i \in DOMAIN ClaimPreOrder : Matches(ClaimPreOrder[i])}
    IN IF at = {} THEN 0 ELSE ClaimPreOrder[CHOOSE i \in at : \A k \in at : i <= k]

\* metadata column mc is attached to relation rel and to no other, or to
\* none for rel = 0, and then has no base field
ClaimAttachedTo(mc, rel) ==
    /\ nodes[mc].relation = rel
    /\ \A r \in NodesOfClass(nodes, "Relation") :
          (mc \in Values(nodes[r].columns)) <=> (r = rel)
    /\ rel = 0 => nodes[mc]._looker_field = 0

\* C28: every metadata column is attached to the first relation in pre-order
\* whose name is the parent-name of the column without its brackets, and to
\* no other; with no such relation it is attached to none and has no base
\* field
C28_AttachedByName ==
    \A mc \in NodesOfClass(nodes, "MetadataColumn") :
       ClaimAttachedTo(mc, ClaimFirstRelation(
           LAMBDA r : nodes[r].rel_name = without_square_brackets(nodes[mc].parent_name)))

\* C28, as the code has it: every metadata column is attached to the first
\* relation in pre-order whose name, or the last segment of whose table
\* reference, is the parent-name of the column, and to no other; with no such
\* relation it is attached to none and has no base field
C28_AttachedByNameOrTable ==
    \A mc \in NodesOfClass(nodes, "MetadataColumn") :
       ClaimAttachedTo(mc, ClaimFirstRelation(
           LAMBDA r : \/ nodes[r].rel_name = without_square_brackets(nodes[mc].parent_name)
                      \/ without_square_brackets(AfterLast(nodes[r].rel_table, "."))
                            = without_square_brackets(nodes[mc].parent_name)))

(***************************************************************************)
(* Claims about the dashboard of the worksheets, checked under SpecSheet.  *)
(***************************************************************************)
\* the dashboard elements of the worksheets, in the order of their parse
ClaimElements ==
    LET ws == NodesOfClass(nodes, "Worksheet")
        nth(k) == CHOOSE w \in ws : Cardinality({x \in ws : x <= w}) = k
    IN [k \in 1..Cardinality(ws) |-> nodes[nth(k)]._lookml_dashboardelement]

\* C29: the project has at most one dashboard; after a parse of worksheets
\* that raised nothing, the elements of the worksheets are, in the order of
\* the worksheets, the values of the element registry of the project and the
\* values of the registry of that dashboard, and the key of each element in
\* the dashboard is the lookml_name of the element, which is its key in the
\* registry of the project
C29_OneDashboard ==
    /\ Len(objs[TheProject].lookml_dashboards) <= 1
    /\ (exc = None /\ ClaimElements # <<>>) =>
          /\ Len(objs[TheProject].lookml_dashboards) = 1
          /\ LET of_project == objs[TheProject].lookml_dashboardelements
                 of_dashboard ==
                     objs[objs[TheProject].lookml_dashboards[1][2]].lookml_dashboard_elements
             IN /\ [k \in DOMAIN of_project |-> of_project[k][2]] = ClaimElements
                /\ [k \in DOMAIN of_dashboard |-> of_dashboard[k][2]] = ClaimElements
                /\ \A k \in DOMAIN ClaimElements :
                      /\ ClaimElements[k] # 0
                      /\ of_project[k][1] = objs[ClaimElements[k]].lookml_name
                      /\ of_dashboard[k][1] = objs[ClaimElements[k]].lookml_name

\* C29 witness: two worksheets were parsed, and the second element has in
\* the dashboard the key that the project gave it, which is not the
\* identifier of its name
C29_Witness ==
    /\ exc = None
    /\ Len(ClaimElements) = 2
    /\ Len(objs[TheProject].lookml_dashboards) = 1
    /\ LET e == ClaimElements[2]
           of_dashboard ==
               objs[objs[TheProject].lookml_dashboards[1][2]].lookml_dashboard_elements
       IN /\ e # 0
          /\ of_dashboard[2] = <<objs[e].lookml_name, e>>
          /\ objs[e].lookml_name # lookml_name_generator(objs[e].orig_name, 0).value

(***************************************************************************)
(* Claims about the order of the explores of a chain and of the blocks of  *)
(* its text, checked under SpecStr.                                        *)
(***************************************************************************)
RECURSIVE ClaimInward(_, _)
\* the explore k steps of first_object inward from explore e
ClaimInward(e, k) == IF k = 0 THEN e ELSE ClaimInward(objs[e].first_object, k - 1)

\* first_object of explore e is an explore
ClaimWraps(e) == objs[e].first_object # 0 /\ objs[objs[e].first_object].cls = "LookMLExplore"

\* the number of explores inward of explore e
ClaimDepth(e) ==
    CHOOSE d \in 0..MaxJoins :
       /\ \A k \in 0..(d - 1) : ClaimWraps(ClaimInward(e, k))
       /\ ~ClaimWraps(ClaimInward(e, d))

\* the view of the block of the "join:" line i of a text: the name of its
\* "from:" line, or else its alias
ClaimViewOfBlock(text, i) ==
    IF text[i + 1].kind = "from:" THEN text[i + 1].name ELSE text[i].name

\* C30: yield_child_explores of an explore yields the explores of its chain
\* of first_object, each once, the innermost, whose first object is a view,
\* first and the explore itself last; and a text that was written has one
\* "explore:" line, before every "join:" line, and one join block for each
\* explore of the chain that has a second object, in the order from the
\* innermost to the explore itself
C30_InnermostFirst ==
    /\ \A e \in OfClass(objs, "LookMLExplore") :
          LET es == yield_child_explores(objs, e)
              d == ClaimDepth(e)
          IN /\ es = [i \in 1..(d + 1) |-> ClaimInward(e, d + 1 - i)]
             /\ \A i, j \in DOMAIN es : i # j => es[i] # es[j]
             /\ objs[objs[es[1]].first_object].cls = "LookMLView"
             /\ es[Len(es)] = e
    /\ ClaimWritten =>
          LET e == ret.node
              d == ClaimDepth(e)
              text == expore_text_list(objs, e)
              headers == {i \in DOMAIN text : text[i].kind = "explore:"}
              js == ClaimJoinLines(text)
              nth(k) == CHOOSE i \in js : Cardinality({j \in js : j <= i}) = k
              joined == SelectSeq([i \in 1..(d + 1) |-> ClaimInward(e, d + 1 - i)],
                                  LAMBDA x : objs[x].second_object # 0)
          IN /\ Cardinality(headers) = 1
             /\ \A h \in headers : \A j \in js : h < j
             /\ Cardinality(js) = Len(joined)
             /\ \A k \in DOMAIN joined :
                   ClaimViewOfBlock(text, nth(k))
                      = objs[objs[joined[k]].second_object].lookml_name

\* C30 witness: the text of an explore of three explores was written; the
\* innermost has no join, the middle one joins one view and the explore
\* itself another, and the text has the block of the middle one first
C30_Witness ==
    /\ ClaimWritten
    /\ LET e == ret.node
           text == expore_text_list(objs, e)
           js == ClaimJoinLines(text)
       IN /\ ClaimDepth(e) = 2
          /\ Len(yield_child_explores(objs, e)) = 3
          /\ objs[ClaimInward(e, 2)].second_object = 0
          /\ objs[ClaimInward(e, 1)].second_object # objs[e].second_object
          /\ \E i, j \in js :
                /\ i < j
                /\ ClaimViewOfBlock(text, i)
                      = objs[objs[ClaimInward(e, 1)].second_object].lookml_name
                /\ ClaimViewOfBlock(text, j) = objs[objs[e].second_object].lookml_name
====
